---- MODULE Spec2Model ----
(***************************************************************************)
(* Model of the flow assembly and statistics engine of pcap_to_csv.py:     *)
(* extract_quic_flows_tshark (record parser + flow assembler),             *)
(* calculate_comprehensive_statistics (statistics engine) and              *)
(* analyze_pcap_file (window slicer + feature emitter), for one capture.   *)
(*                                                                         *)
(* Python strings are sequences of one-character strings, so that split,   *)
(* strip, int(), the f-string flow id and min() on strings are computed    *)
(* as Python computes them.  Floats are exact rationals <<n, d>>; the      *)
(* timestamps of the model are the integral ones.                          *)
(***************************************************************************)
EXTENDS Integers, Sequences, FiniteSets, TLC

VARIABLES
    files,            \* pcap_files of main: the captures found under the root
    fnum,             \* index of the file of main's loop
    announced,        \* the "[i/n] name" lines main has printed
    total_stats,      \* total_stats of main
    written,          \* the CSV files of the output folders, by path
    reported,         \* files for which an error message was printed
    lines,            \* result.stdout.strip().split('\n')
    pc,               \* position in main / analyze_pcap_file / extract_quic_flows_tshark
    idx,              \* index of the next line of the parse loop
    pbar,             \* progress counter (pbar.update(1) calls)
    flows,            \* the flows dict, in insertion order
    fi,               \* index of the next flow of the direction loop
    printed,          \* the "<n> flow, <m> packets found" message
    full_results,     \* rows of the full variant
    wi,               \* index of the next window of PACKET_WINDOWS
    window_results,   \* rows of each window variant, by window index
    window_counts,    \* window_counts of analyze_pcap_file, by window index
    returned,         \* the dict analyze_pcap_file returns
    slice,            \* argument of a call of calculate_comprehensive_statistics
    stats             \* what that call returns

batchVars == <<files, fnum, announced, total_stats, written, reported>>

fileVars == <<lines, pc, idx, pbar, flows, fi, printed, full_results, wi,
              window_results, window_counts, returned>>

engineVars == <<slice, stats>>

vars == <<batchVars, fileVars, engineVars>>

(***************************************************************************)
(* Bounds of the model.                                                    *)
(***************************************************************************)
MaxLines == 3        \* lines of a capture drawn from the whole line menu
MaxFlowLines == 6    \* lines of a capture drawn from the valid-packet menu
MaxFiles == 2        \* capture files of a batch of several files
MaxSliceLines == 3   \* packets of a slice handed to the statistics alone

(***************************************************************************)
(* Python strings.                                                         *)
(***************************************************************************)
Ord(c) ==
    CASE c = " " -> 32
      [] c = "\"" -> 34
      [] c = "-" -> 45
      [] c = "0" -> 48
      [] c = "1" -> 49
      [] c = "2" -> 50
      [] c = "3" -> 51
      [] c = "4" -> 52
      [] c = "5" -> 53
      [] c = "6" -> 54
      [] c = "7" -> 55
      [] c = "8" -> 56
      [] c = "9" -> 57
      [] c = ":" -> 58
      [] c = ">" -> 62
      [] c = "I" -> 73
      [] c = "a" -> 97
      [] c = "b" -> 98
      [] c = "c" -> 99
      [] c = "d" -> 100
      [] c = "e" -> 101
      [] c = "h" -> 104
      [] c = "i" -> 105
      [] c = "k" -> 107
      [] c = "l" -> 108
      [] c = "n" -> 110
      [] c = "o" -> 111
      [] c = "r" -> 114
      [] c = "s" -> 115
      [] c = "t" -> 116
      [] c = "x" -> 120
      [] c = "y" -> 121
      [] c = "z" -> 122
      [] c = "|" -> 124

Digits == {"0", "1", "2", "3", "4", "5", "6", "7", "8", "9"}

DigitVal(c) == Ord(c) - 48

Whitespace == {" "}

\* s < t in Python's ordering of str (code point by code point, prefix first)
RECURSIVE StrLess(_, _)
StrLess(s, t) ==
    IF t = <<>> THEN FALSE
    ELSE IF s = <<>> THEN TRUE
    ELSE IF Ord(Head(s)) < Ord(Head(t)) THEN TRUE
    ELSE IF Ord(Head(s)) > Ord(Head(t)) THEN FALSE
    ELSE StrLess(Tail(s), Tail(t))

\* min(a, b) on str: b only when b < a
StrMin(a, b) == IF StrLess(b, a) THEN b ELSE a

\* s.strip(chars)
RECURSIVE LStrip(_, _)
LStrip(s, chars) ==
    IF s # <<>> /\ Head(s) \in chars THEN LStrip(Tail(s), chars) ELSE s

RECURSIVE RStrip(_, _)
RStrip(s, chars) ==
    IF s # <<>> /\ s[Len(s)] \in chars
    THEN RStrip(SubSeq(s, 1, Len(s) - 1), chars)
    ELSE s

Strip(s, chars) == RStrip(LStrip(s, chars), chars)

\* s.split(sep) for a one-character separator: what precedes the first
\* sep, then the split of what follows it
RECURSIVE Split(_, _)
Split(s, sep) ==
    IF \A i \in 1..Len(s) : s[i] # sep THEN <<s>>
    ELSE LET i == CHOOSE i \in 1..Len(s) :
                      s[i] = sep /\ \A j \in 1..(i - 1) : s[j] # sep
         IN  <<SubSeq(s, 1, i - 1)>> \o Split(SubSeq(s, i + 1, Len(s)), sep)

\* sub in s
Contains(s, sub) ==
    \E i \in 1..(Len(s) - Len(sub) + 1) : SubSeq(s, i, i + Len(sub) - 1) = sub

LowerChar(c) == IF c = "I" THEN "i" ELSE c

\* s.lower()
Lower(s) == [i \in 1..Len(s) |-> LowerChar(s[i])]

\* int(s) raises ValueError unless s is an optional sign and digits
IsIntLiteral(s) ==
    LET body == IF s # <<>> /\ Head(s) = "-" THEN Tail(s) ELSE s
    IN  body # <<>> /\ \A i \in 1..Len(body) : body[i] \in Digits

RECURSIVE DigitsVal(_)
DigitsVal(s) ==
    IF s = <<>> THEN 0
    ELSE 10 * DigitsVal(SubSeq(s, 1, Len(s) - 1)) + DigitVal(s[Len(s)])

\* int(s) of a literal
IntOf(s) == IF Head(s) = "-" THEN 0 - DigitsVal(Tail(s)) ELSE DigitsVal(s)

\* float(s) raises ValueError unless s is a literal; the model's literals
\* are the integral ones
IsFloatLiteral(s) == IsIntLiteral(s)

FloatOf(s) == IntOf(s)

(***************************************************************************)
(* Record parser: the body of the loop over lines.                         *)
(***************************************************************************)
None == <<"<None>">>     \* Python's None, distinct from every str

NoDirection == "None"    \* packet_info['direction'] = None

\* fields = [f.strip('"').strip() for f in line.split('|')]
Fields(line) ==
    LET parts == Split(line, "|")
    IN  [i \in 1..Len(parts) |-> Strip(Strip(parts[i], {"\""}), Whitespace)]

\* fields[i] if len(fields) > i else ''   (i is the 0-based Python index)
OptField(fields, i) == IF Len(fields) > i THEN fields[i + 1] ELSE <<>>

\* the IPv6 field first
SrcIpV6First(fields) == IF fields[3] # <<>> THEN fields[3] ELSE fields[1]

\* src_ip = ip_src if ip_src else ipv6_src
SrcIp(fields) == IF fields[1] # <<>> THEN fields[1] ELSE fields[3]

\* dst_ip = ip_dst if ip_dst else ipv6_dst
DstIp(fields) == IF fields[2] # <<>> THEN fields[2] ELSE fields[4]

\* conversions that never raise
RaisesNothing(fields) == FALSE

\* the except (ValueError, TypeError) branch of the packet_info construction
RaisesValueError(fields) ==
    \/ fields[7] # <<>> /\ ~IsIntLiteral(fields[7])
    \/ fields[8] # <<>> /\ ~IsFloatLiteral(fields[8])
    \/ OptField(fields, 9) # <<>> /\ ~IsIntLiteral(OptField(fields, 9))

\* packet_info, and packet_info['direction'] = None
PacketInfo(fields) ==
    LET packet_type == OptField(fields, 8)
        quic_length == OptField(fields, 9)
    IN  [src_ip |-> SrcIp(fields),
         dst_ip |-> DstIp(fields),
         src_port |-> fields[5],
         dst_port |-> fields[6],
         size |-> IF fields[7] # <<>> THEN IntOf(fields[7]) ELSE 0,
         timestamp |-> IF fields[8] # <<>> THEN FloatOf(fields[8]) ELSE 0,
         packet_type |-> IF packet_type # <<>> THEN Lower(packet_type) ELSE <<>>,
         is_long_header |-> packet_type # <<>>,
         is_short_header |-> ~(packet_type # <<>>),
         quic_length |-> IF quic_length # <<>> THEN IntOf(quic_length) ELSE 0,
         quic_version |-> OptField(fields, 10),
         dcid |-> OptField(fields, 11),
         scid |-> OptField(fields, 12),
         direction |-> NoDirection]

\* What the loop body does with one line: "blank" (continue before any
\* pbar.update), "short", "missing", "valueerror" (pbar.update, continue)
\* or "packet" (a packet_info is appended).
LineOutcome(line) ==
    IF Strip(line, Whitespace) = <<>> THEN "blank"
    ELSE LET fields == Fields(line)
         IN  IF Len(fields) < 8 THEN "short"
             ELSE IF \/ SrcIp(fields) = <<>> \/ DstIp(fields) = <<>>
                     \/ fields[5] = <<>> \/ fields[6] = <<>> THEN "missing"
             ELSE IF RaisesValueError(fields) THEN "valueerror"
             ELSE "packet"

(***************************************************************************)
(* The lines of the model: what tshark prints, one quoted '|'-separated    *)
(* line per packet.                                                        *)
(***************************************************************************)
RECURSIVE JoinFields(_)
JoinFields(fields) ==
    IF fields = <<>> THEN <<>>
    ELSE IF Len(fields) = 1 THEN <<"\"">> \o fields[1] \o <<"\"">>
    ELSE <<"\"">> \o fields[1] \o <<"\"", "|">> \o JoinFields(Tail(fields))

E == <<>>

\* ip.src, ip.dst, ipv6.src, ipv6.dst, udp.srcport, udp.dstport, frame.len,
\* frame.time_epoch, quic.long.packet_type, quic.packet_length, quic.version,
\* quic.dcid, quic.scid
LineAB == JoinFields(<< <<"a">>, <<"b">>, E, E, <<"1">>, <<"2">>,
                        <<"1", "0", "0">>, <<"0">>, E, E, E, E, E >>)

LineBA == JoinFields(<< <<"b">>, <<"a">>, E, E, <<"2">>, <<"1">>,
                        <<"2", "0", "0">>, <<"1">>, E, E, E, E, E >>)

LineABHandshake ==
    JoinFields(<< <<"a">>, <<"b">>, E, E, <<"1">>, <<"2">>,
                  <<"3", "0", "0">>, <<"3">>, <<"2">>, <<"5", "0">>, <<"1">>, E, E >>)

LineCBInitial ==
    JoinFields(<< E, E, <<"c">>, <<"b">>, <<"1">>, <<"2">>,
                  <<"1", "0", "5">>, <<"2">>, <<"I", "n", "i", "t", "i", "a", "l">>,
                  <<"5", "0">>, <<"1">>, E, E >>)

LineSixFields ==
    JoinFields(<< <<"a">>, <<"b">>, E, E, <<"1">>, <<"2">> >>)

LineBlank == <<" ">>

LineEmptySize ==
    JoinFields(<< <<"a">>, <<"b">>, E, E, <<"1">>, <<"2">>,
                  E, <<"2">>, E, E, E, E, E >>)

LineBadSize ==
    JoinFields(<< <<"a">>, <<"b">>, E, E, <<"1">>, <<"2">>,
                  <<"x">>, <<"2">>, E, E, E, E, E >>)

LineEmptyTime ==
    JoinFields(<< <<"b">>, <<"a">>, E, E, <<"2">>, <<"1">>,
                  <<"2", "0", "0">>, E, E, E, E, E, E >>)

LineBadTime ==
    JoinFields(<< <<"b">>, <<"a">>, E, E, <<"2">>, <<"1">>,
                  <<"2", "0", "0">>, <<"x">>, E, E, E, E, E >>)

LineNoSrcIp ==
    JoinFields(<< E, <<"b">>, E, E, <<"1">>, <<"2">>,
                  <<"1", "0", "0">>, <<"2">>, E, E, E, E, E >>)

LineNoDstIp ==
    JoinFields(<< <<"a">>, E, E, E, <<"1">>, <<"2">>,
                  <<"1", "0", "0">>, <<"2">>, E, E, E, E, E >>)

LineNoSrcPort ==
    JoinFields(<< <<"a">>, <<"b">>, E, E, E, <<"2">>,
                  <<"1", "0", "0">>, <<"2">>, E, E, E, E, E >>)

LineNoDstPort ==
    JoinFields(<< <<"a">>, <<"b">>, E, E, <<"1">>, E,
                  <<"1", "0", "0">>, <<"2">>, E, E, E, E, E >>)

LineBadPort ==
    JoinFields(<< <<"a">>, <<"b">>, E, E, <<"x">>, <<"2">>,
                  <<"1", "0", "0">>, <<"2">>, E, E, E, E, E >>)

LineBadQuicLength ==
    JoinFields(<< <<"a">>, <<"b">>, E, E, <<"1">>, <<"2">>,
                  <<"1", "0", "0">>, <<"2">>, <<"0">>, <<"x">>, E, E, E >>)

\* both address families present: a -> b by IPv4, c -> c by IPv6
LineBothFamilies ==
    JoinFields(<< <<"a">>, <<"b">>, <<"c">>, <<"c">>, <<"1">>, <<"2">>,
                  <<"1", "0", "0">>, <<"2">>, E, E, E, E, E >>)

\* a long-header packet of a type no test recognizes
LineBAUnknown ==
    JoinFields(<< <<"b">>, <<"a">>, E, E, <<"2">>, <<"1">>,
                  <<"1", "0", "5">>, <<"5">>, <<"x">>, E, E, E, E >>)

\* a type that two tests match
LineABRetryInitial ==
    JoinFields(<< <<"a">>, <<"b">>, E, E, <<"1">>, <<"2">>,
                  <<"1", "0", "0">>, <<"4">>,
                  <<"r", "e", "t", "r", "y", "i", "n", "i", "t", "i", "a", "l">>,
                  E, E, E, E >>)

LineABZeroRtt ==
    JoinFields(<< <<"a">>, <<"b">>, E, E, <<"1">>, <<"2">>,
                  <<"1", "0", "0">>, <<"2">>, <<"1">>, E, E, E, E >>)

LineBARetry ==
    JoinFields(<< <<"b">>, <<"a">>, E, E, <<"2">>, <<"1">>,
                  <<"2", "0", "0">>, <<"1">>, <<"3">>, E, E, E, E >>)

\* lines of two flows, for the captures long enough to fill a window
FlowLines == {LineAB, LineBA, LineCBInitial}

\* lines of the short captures
CoreLines ==
    {LineAB, LineBA, LineCBInitial, LineABHandshake, LineSixFields, LineBlank,
     LineEmptySize}

\* two lines of endpoints whose strings hold a colon: a:1 port 2 -> b port 2
\* by IPv6, and a port 1:2 -> b port 2
LineColonAddress ==
    JoinFields(<< E, E, <<"a", ":", "1">>, <<"b">>, <<"2">>, <<"2">>,
                  <<"1", "0", "0">>, <<"1">>, E, E, E, E, E >>)

LineColonPort ==
    JoinFields(<< <<"a">>, <<"b">>, E, E, <<"1", ":", "2">>, <<"2">>,
                  <<"2", "0", "0">>, <<"2">>, E, E, E, E, E >>)

ColonLines == {LineColonAddress, LineColonPort}

\* lines of one conversation, for the packet lists handed to the statistics
EngineLines ==
    {LineAB, LineBA, LineABHandshake, LineEmptySize, LineBAUnknown,
     LineABRetryInitial, LineABZeroRtt, LineBARetry}

\* every kind of line
AllLines ==
    CoreLines \cup EngineLines \cup
    {LineBadSize, LineEmptyTime, LineBadTime, LineNoSrcIp, LineNoDstIp,
     LineNoSrcPort, LineNoDstPort, LineBadPort, LineBadQuicLength,
     LineBothFamilies} \cup ColonLines

\* The parse of a line depends on the line only: the parses of the lines
\* above are tabulated once.
ParseText(line) ==
    [outcome |-> LineOutcome(line),
     packet_info |-> IF LineOutcome(line) = "packet"
                     THEN PacketInfo(Fields(line)) ELSE <<>>]

ParseTable == [line \in AllLines \cup {<<>>} |-> ParseText(line)]

Parsed(line) ==
    IF line \in DOMAIN ParseTable THEN ParseTable[line] ELSE ParseText(line)


(***************************************************************************)
(* Flow assembler.                                                         *)
(***************************************************************************)
Colon == <<":">>
Arrow == <<"-", ">">>

\* flow_id_1 and flow_id_2 of a packet, and flow_id = min of the two
FlowId1(p) == p.src_ip \o Colon \o p.src_port \o Arrow \o p.dst_ip \o Colon \o p.dst_port

FlowId2(p) == p.dst_ip \o Colon \o p.dst_port \o Arrow \o p.src_ip \o Colon \o p.src_port

\* the key without the min(): the directional string of the packet
FlowIdDirectional(p) == FlowId1(p)

FlowId(p) == StrMin(FlowId1(p), FlowId2(p))

\* position of flow_id in the dict, 0 when flow_id not in flows
FlowIndex(fs, flow_id) ==
    IF \E i \in 1..Len(fs) : fs[i].flow_id = flow_id
    THEN CHOOSE i \in 1..Len(fs) : fs[i].flow_id = flow_id
    ELSE 0

NewFlow(flow_id) ==
    [flow_id |-> flow_id, packets |-> <<>>,
     server_ip |-> None, server_port |-> None,
     client_ip |-> None, client_port |-> None]

\* the new packet goes to the front of its flow
AddLinePrepending(fs, line) ==
    IF Parsed(line).outcome # "packet" THEN fs
    ELSE LET p == Parsed(line).packet_info
             flow_id == FlowId(p)
             fs1 == IF FlowIndex(fs, flow_id) = 0
                    THEN Append(fs, NewFlow(flow_id)) ELSE fs
             i == FlowIndex(fs1, flow_id)
         IN  [fs1 EXCEPT ![i].packets = <<p>> \o @]

\* a line that yields no packet discards the flows built so far
AddLineResetting(fs, line) ==
    IF Parsed(line).outcome # "packet" THEN <<>>
    ELSE LET p == Parsed(line).packet_info
             flow_id == FlowId(p)
             fs1 == IF FlowIndex(fs, flow_id) = 0
                    THEN Append(fs, NewFlow(flow_id)) ELSE fs
             i == FlowIndex(fs1, flow_id)
         IN  [fs1 EXCEPT ![i].packets = Append(@, p)]

\* flows after the loop body has run on one line
AddLine(fs, line) ==
    IF Parsed(line).outcome # "packet" THEN fs
    ELSE LET p == Parsed(line).packet_info
             flow_id == FlowId(p)
             fs1 == IF FlowIndex(fs, flow_id) = 0
                    THEN Append(fs, NewFlow(flow_id)) ELSE fs
             i == FlowIndex(fs1, flow_id)
         IN  [fs1 EXCEPT ![i].packets = Append(@, p)]

\* pbar.update(1) is reached on every path but the blank-line one
PbarStep(line) == IF Parsed(line).outcome = "blank" THEN 0 ELSE 1

\* roles taken from the last packet of the flow instead of the first
SetDirectionsFromLast(flow_data) ==
    IF flow_data.packets = <<>> THEN flow_data
    ELSE LET last_packet == flow_data.packets[Len(flow_data.packets)]
             client_ip == last_packet.src_ip
             client_port == last_packet.src_port
         IN  [flow_data EXCEPT
                !.client_ip = client_ip,
                !.client_port = client_port,
                !.server_ip = last_packet.dst_ip,
                !.server_port = last_packet.dst_port,
                !.packets = [j \in 1..Len(flow_data.packets) |->
                    [flow_data.packets[j] EXCEPT !.direction =
                        IF flow_data.packets[j].src_ip = client_ip
                           /\ flow_data.packets[j].src_port = client_port
                        THEN "outgoing" ELSE "incoming"]]]

\* the direction loop without its else branch: a packet that does not come
\* from the client keeps no direction
SetDirectionsOfClientOnly(flow_data) ==
    IF flow_data.packets = <<>> THEN flow_data
    ELSE LET first_packet == flow_data.packets[1]
             client_ip == first_packet.src_ip
             client_port == first_packet.src_port
         IN  [flow_data EXCEPT
                !.client_ip = client_ip,
                !.client_port = client_port,
                !.server_ip = first_packet.dst_ip,
                !.server_port = first_packet.dst_port,
                !.packets = [j \in 1..Len(flow_data.packets) |->
                    [flow_data.packets[j] EXCEPT !.direction =
                        IF flow_data.packets[j].src_ip = client_ip
                           /\ flow_data.packets[j].src_port = client_port
                        THEN "outgoing" ELSE NoDirection]]]

\* the body of "for flow_id, flow_data in flows.items()" that sets the roles
\* from the first packet and the direction of every packet
SetDirections(flow_data) ==
    IF flow_data.packets = <<>> THEN flow_data
    ELSE LET first_packet == flow_data.packets[1]
             client_ip == first_packet.src_ip
             client_port == first_packet.src_port
         IN  [flow_data EXCEPT
                !.client_ip = client_ip,
                !.client_port = client_port,
                !.server_ip = first_packet.dst_ip,
                !.server_port = first_packet.dst_port,
                !.packets = [j \in 1..Len(flow_data.packets) |->
                    [flow_data.packets[j] EXCEPT !.direction =
                        IF flow_data.packets[j].src_ip = client_ip
                           /\ flow_data.packets[j].src_port = client_port
                        THEN "outgoing" ELSE "incoming"]]]

\* the loop over lines, from the flows built so far
RECURSIVE ParseLoop(_, _)
ParseLoop(fs, ls) ==
    IF ls = <<>> THEN fs ELSE ParseLoop(AddLine(fs, Head(ls)), Tail(ls))

\* the flows extract_quic_flows_tshark returns for the lines ls
extract_quic_flows_tshark(ls) ==
    LET fs == ParseLoop(<<>>, ls)
    IN  [i \in 1..Len(fs) |-> SetDirections(fs[i])]

(***************************************************************************)
(* Numbers of the statistics engine: exact rationals <<n, d>>, d > 0, in   *)
(* lowest terms; a square root is kept as its radicand.                    *)
(***************************************************************************)
RECURSIVE GCD(_, _)
GCD(a, b) == IF b = 0 THEN a ELSE GCD(b, a % b)

Abs(n) == IF n < 0 THEN 0 - n ELSE n

Rat(n, d) ==
    LET g == GCD(Abs(n), d)
    IN  IF n = 0 THEN <<0, 1>> ELSE <<n \div g, d \div g>>

Zero == <<0, 1>>

RatDiv(a, b) == Rat(a[1] * b[2], a[2] * b[1])     \* b > 0

RatMul(a, b) == Rat(a[1] * b[1], a[2] * b[2])

RatLeq(a, b) == a[1] * b[2] <= b[1] * a[2]

Sqrt(r) == [sqrt_of |-> r]

RECURSIVE SumSeq(_)
SumSeq(xs) == IF xs = <<>> THEN 0 ELSE Head(xs) + SumSeq(Tail(xs))

SumSq(xs) == SumSeq([i \in 1..Len(xs) |-> xs[i] * xs[i]])

Range(xs) == {xs[i] : i \in 1..Len(xs)}

MinSeq(xs) == CHOOSE m \in Range(xs) : \A x \in Range(xs) : m <= x

MaxSeq(xs) == CHOOSE m \in Range(xs) : \A x \in Range(xs) : m >= x

\* np.mean, np.var (population variance), np.std of a non-empty list
Mean(xs) == Rat(SumSeq(xs), Len(xs))

Var(xs) == Rat(Len(xs) * SumSq(xs) - SumSeq(xs) * SumSeq(xs), Len(xs) * Len(xs))

Std(xs) == Sqrt(Var(xs))

Sizes(pkts) == [i \in 1..Len(pkts) |-> pkts[i].size]

Timestamps(pkts) == [i \in 1..Len(pkts) |-> pkts[i].timestamp]

\* the filter with >= 0 in place of > 0
NonNegative(xs) == SelectSeq(xs, LAMBDA x : x >= 0)

\* the "if p.get(...) > 0" filter of the size and timestamp lists
Positive(xs) == SelectSeq(xs, LAMBDA x : x > 0)

(***************************************************************************)
(* calculate_entropy: -sum p*log2(p) over the Counter of the values.  The  *)
(* sum is kept as its terms: for each count n, how many distinct values    *)
(* occur n times (the entropy is a function of that histogram and of the   *)
(* total).                                                                 *)
(***************************************************************************)
Count(values, v) == Cardinality({i \in 1..Len(values) : values[i] = v})

\* the frequencies of the positions instead of the values: every element
\* is a value of its own
calculate_entropy_of_positions(values) ==
    [n \in 1..Len(values) |-> IF n = 1 THEN Len(values) ELSE 0]

calculate_entropy(values) ==
    [n \in 1..Len(values) |->
        Cardinality({v \in Range(values) : Count(values, v) = n})]

(***************************************************************************)
(* calculate_comprehensive_statistics                                      *)
(***************************************************************************)
\* the size statistics over every packet, zero-size ones included
calc_size_stats_all(pkts) ==
    LET sizes == Sizes(pkts)
    IN  IF sizes = <<>>
        THEN [mean |-> Zero, min |-> 0, max |-> 0,
              std |-> Sqrt(Zero), var |-> Zero, cv |-> Sqrt(Zero)]
        ELSE [mean |-> Mean(sizes), min |-> MinSeq(sizes), max |-> MaxSeq(sizes),
              std |-> Std(sizes), var |-> Var(sizes),
              cv |-> IF Mean(sizes)[1] > 0
                     THEN Sqrt(RatDiv(Var(sizes), RatMul(Mean(sizes), Mean(sizes))))
                     ELSE Sqrt(Zero)]

\* calc_size_stats(pkts, prefix): the six fields of one prefix
calc_size_stats(pkts) ==
    LET sizes == Positive(Sizes(pkts))
    IN  IF sizes = <<>>
        THEN [mean |-> Zero, min |-> 0, max |-> 0,
              std |-> Sqrt(Zero), var |-> Zero, cv |-> Sqrt(Zero)]
        ELSE [mean |-> Mean(sizes), min |-> MinSeq(sizes), max |-> MaxSeq(sizes),
              std |-> Std(sizes), var |-> Var(sizes),
              cv |-> IF Mean(sizes)[1] > 0
                     THEN Sqrt(RatDiv(Var(sizes), RatMul(Mean(sizes), Mean(sizes))))
                     ELSE Sqrt(Zero)]

\* the differences taken in arrival order, without the sort
calc_iat_stats_unsorted(pkts) ==
    LET timestamps == Positive(Timestamps(pkts))
        iats == [i \in 1..(Len(timestamps) - 1) |-> timestamps[i + 1] - timestamps[i]]
    IN  IF Len(timestamps) < 2
        THEN [mean |-> Zero, min |-> 0, max |-> 0, std |-> Sqrt(Zero), var |-> Zero]
        ELSE [mean |-> Mean(iats), min |-> MinSeq(iats), max |-> MaxSeq(iats),
              std |-> Std(iats), var |-> Var(iats)]

\* calc_iat_stats(pkts, prefix): the five fields of one prefix
calc_iat_stats(pkts) ==
    LET timestamps == SortSeq(Positive(Timestamps(pkts)), LAMBDA a, b : a < b)
        iats == [i \in 1..(Len(timestamps) - 1) |-> timestamps[i + 1] - timestamps[i]]
    IN  IF Len(timestamps) < 2
        THEN [mean |-> Zero, min |-> 0, max |-> 0, std |-> Sqrt(Zero), var |-> Zero]
        ELSE [mean |-> Mean(iats), min |-> MinSeq(iats), max |-> MaxSeq(iats),
              std |-> Std(iats), var |-> Var(iats)]

\* the same chain with the retry test moved to the front
PacketClassRetryFirst(pkt) ==
    LET ptype == Lower(pkt.packet_type)
    IN  IF Contains(ptype, <<"r", "e", "t", "r", "y">>) \/ ptype = <<"3">>
        THEN "retry_packets"
        ELSE IF Contains(ptype, <<"i", "n", "i", "t", "i", "a", "l">>) \/ ptype = <<"0">>
        THEN "initial_packets"
        ELSE IF Contains(ptype, <<"h", "a", "n", "d", "s", "h", "a", "k", "e">>)
                \/ ptype = <<"2">>
        THEN "handshake_packets"
        ELSE IF \/ Contains(ptype, <<"0", "-", "r", "t", "t">>)
                \/ Contains(ptype, <<"z", "e", "r", "o", "r", "t", "t">>)
                \/ ptype = <<"1">>
        THEN "zerortt_packets"
        ELSE IF pkt.is_short_header THEN "onertt_packets"
        ELSE "none"

\* the same chain with a plain else at its end: every packet that matches
\* no tag is counted as one-rtt
PacketClassElseOneRtt(pkt) ==
    LET ptype == Lower(pkt.packet_type)
    IN  IF Contains(ptype, <<"i", "n", "i", "t", "i", "a", "l">>) \/ ptype = <<"0">>
        THEN "initial_packets"
        ELSE IF Contains(ptype, <<"h", "a", "n", "d", "s", "h", "a", "k", "e">>)
                \/ ptype = <<"2">>
        THEN "handshake_packets"
        ELSE IF \/ Contains(ptype, <<"0", "-", "r", "t", "t">>)
                \/ Contains(ptype, <<"z", "e", "r", "o", "r", "t", "t">>)
                \/ ptype = <<"1">>
        THEN "zerortt_packets"
        ELSE IF Contains(ptype, <<"r", "e", "t", "r", "y">>) \/ ptype = <<"3">>
        THEN "retry_packets"
        ELSE "onertt_packets"

\* the if/elif chain of the loop over all_packets: the counter a packet
\* increments, "none" when no branch is taken
PacketClass(pkt) ==
    LET ptype == Lower(pkt.packet_type)
    IN  IF Contains(ptype, <<"i", "n", "i", "t", "i", "a", "l">>) \/ ptype = <<"0">>
        THEN "initial_packets"
        ELSE IF Contains(ptype, <<"h", "a", "n", "d", "s", "h", "a", "k", "e">>)
                \/ ptype = <<"2">>
        THEN "handshake_packets"
        ELSE IF \/ Contains(ptype, <<"0", "-", "r", "t", "t">>)
                \/ Contains(ptype, <<"z", "e", "r", "o", "r", "t", "t">>)
                \/ ptype = <<"1">>
        THEN "zerortt_packets"
        ELSE IF Contains(ptype, <<"r", "e", "t", "r", "y">>) \/ ptype = <<"3">>
        THEN "retry_packets"
        ELSE IF pkt.is_short_header THEN "onertt_packets"
        ELSE "none"

ClassCount(pkts, class) ==
    Len(SelectSeq(pkts, LAMBDA p : PacketClass(p) = class))

\* the counters the loop over all_packets has created in stats: one key per
\* class that some packet incremented
ClassCounters(pkts) ==
    [k \in {PacketClass(pkts[i]) : i \in 1..Len(pkts)} \ {"none"} |->
        ClassCount(pkts, k)]

ClassKeys ==
    {"initial_packets", "handshake_packets", "zerortt_packets",
     "onertt_packets", "retry_packets"}

\* "for key in [...]: if key not in stats: stats[key] = 0"
ZeroFill(counters) == counters @@ [k \in ClassKeys |-> 0]

\* the last valid timestamp minus the first one, in arrival order
DurationLastMinusFirst(pkts) ==
    LET timestamps == Positive(Timestamps(pkts))
    IN  IF Len(timestamps) >= 2 THEN timestamps[Len(timestamps)] - timestamps[1] ELSE 0

\* stats['duration']
Duration(pkts) ==
    LET timestamps == Positive(Timestamps(pkts))
    IN  IF Len(timestamps) >= 2 THEN MaxSeq(timestamps) - MinSeq(timestamps) ELSE 0

\* the statistics of a non-empty packet list
ComputedStatistics(packets) ==
    LET outgoing_packets == SelectSeq(packets, LAMBDA p : p.direction = "outgoing")
        incoming_packets == SelectSeq(packets, LAMBDA p : p.direction = "incoming")
        sz == calc_size_stats(packets)
        szo == calc_size_stats(outgoing_packets)
        szi == calc_size_stats(incoming_packets)
        iat == calc_iat_stats(packets)
        iato == calc_iat_stats(outgoing_packets)
        iati == calc_iat_stats(incoming_packets)
        short_header_count == Len(SelectSeq(packets, LAMBDA p : p.is_short_header))
        long_header_count == Len(SelectSeq(packets, LAMBDA p : p.is_long_header))
        total == Len(packets)
        counters == ZeroFill(ClassCounters(packets))
    IN  counters @@
        [total_packets |-> Len(packets),
         outgoing_packets |-> Len(outgoing_packets),
         incoming_packets |-> Len(incoming_packets),
         total_bytes |-> SumSeq(Sizes(packets)),
         outgoing_bytes |-> SumSeq(Sizes(outgoing_packets)),
         incoming_bytes |-> SumSeq(Sizes(incoming_packets)),
         packet_size_mean |-> sz.mean, packet_size_min |-> sz.min,
         packet_size_max |-> sz.max, packet_size_std |-> sz.std,
         packet_size_var |-> sz.var, packet_size_cv |-> sz.cv,
         packet_size_out_mean |-> szo.mean, packet_size_out_min |-> szo.min,
         packet_size_out_max |-> szo.max, packet_size_out_std |-> szo.std,
         packet_size_out_var |-> szo.var, packet_size_out_cv |-> szo.cv,
         packet_size_in_mean |-> szi.mean, packet_size_in_min |-> szi.min,
         packet_size_in_max |-> szi.max, packet_size_in_std |-> szi.std,
         packet_size_in_var |-> szi.var, packet_size_in_cv |-> szi.cv,
         iat_mean |-> iat.mean, iat_min |-> iat.min, iat_max |-> iat.max,
         iat_std |-> iat.std, iat_var |-> iat.var,
         iat_out_mean |-> iato.mean, iat_out_min |-> iato.min,
         iat_out_max |-> iato.max, iat_out_std |-> iato.std,
         iat_out_var |-> iato.var,
         iat_in_mean |-> iati.mean, iat_in_min |-> iati.min,
         iat_in_max |-> iati.max, iat_in_std |-> iati.std,
         iat_in_var |-> iati.var,
         short_header_count |-> short_header_count,
         long_header_count |-> long_header_count,
         short_header_ratio |-> Rat(short_header_count, total),
         long_header_ratio |-> Rat(long_header_count, total),
         spin_bit_count |-> 0,
         spin_bit_ratio |-> Zero,
         no_spin_bit_ratio |-> <<1, 1>>,
         initial_ratio |-> Rat(counters["initial_packets"], total),
         handshake_ratio |-> Rat(counters["handshake_packets"], total),
         zerortt_ratio |-> Rat(counters["zerortt_packets"], total),
         onertt_ratio |-> Rat(counters["onertt_packets"], total),
         retry_ratio |-> Rat(counters["retry_packets"], total),
         entropy_direction |->
             calculate_entropy([i \in 1..Len(packets) |-> packets[i].direction]),
         entropy_packet_size |->
             calculate_entropy([i \in 1..Len(packets) |-> packets[i].size \div 10]),
         duration |-> Duration(packets)]

\* an early "return {}" that also takes the one-packet lists
StatisticsOfTwoOrMore(packets) ==
    IF Len(packets) < 2 THEN [k \in {} |-> 0] ELSE ComputedStatistics(packets)

\* "if not packets: return {}", else the statistics
calculate_comprehensive_statistics(packets) ==
    IF packets = <<>> THEN [k \in {} |-> 0] ELSE ComputedStatistics(packets)

(***************************************************************************)
(* analyze_pcap_file: window slicer and feature emitter.                   *)
(***************************************************************************)
PACKET_WINDOWS == <<5, 10, 15, 20>>

\* pcap_file.name and pcap_file.stem of a file of the batch
NameOf(file) == file.stem \o ".pcap"

StemOf(file) == file.stem

\* pcap_file.name of the file being analyzed
FileName == NameOf(files[fnum])

\* flow_result of the full variant: the metadata, then update(full_stats)
FullRecord(flow_data) ==
    calculate_comprehensive_statistics(flow_data.packets) @@
    [file |-> FileName,
     flow_id |-> flow_data.flow_id,
     client_ip |-> flow_data.client_ip,
     client_port |-> flow_data.client_port,
     server_ip |-> flow_data.server_ip,
     server_port |-> flow_data.server_port]

\* metadata that also carries the length of the whole flow
get_metadata_with_total(flow_id, flow_data, window) ==
    [file |-> FileName,
     flow_id |-> flow_id,
     window_size |-> window,
     total_packets_in_flow |-> Len(flow_data.packets),
     client_ip |-> flow_data.client_ip,
     client_port |-> flow_data.client_port,
     server_ip |-> flow_data.server_ip,
     server_port |-> flow_data.server_port]

get_safe_metadata(flow_id, flow_data, window) ==
    [file |-> FileName,
     flow_id |-> flow_id,
     window_size |-> window,
     client_ip |-> flow_data.client_ip,
     client_port |-> flow_data.client_port,
     server_ip |-> flow_data.server_ip,
     server_port |-> flow_data.server_port]

\* no slicing: the whole packet list goes to the statistics
SliceWhole(packets, window) == packets

\* packets[:window]
Slice(packets, window) ==
    SubSeq(packets, 1, IF Len(packets) < window THEN Len(packets) ELSE window)

\* flow_result of a window variant, for a flow that passed the length test
WindowRecord(flow_data, window) ==
    calculate_comprehensive_statistics(Slice(flow_data.packets, window)) @@
    get_safe_metadata(flow_data.flow_id, flow_data, window)

\* no length test: short flows get a partial row
InWindowAlways(flow_data, window) == TRUE

\* "if len(packets) < window: continue"
InWindow(flow_data, window) == ~(Len(flow_data.packets) < window)

\* the full variant restricted to the flows that fill the first window
FullResultsOfLongFlows(fs) ==
    LET kept == SelectSeq(fs, LAMBDA f : ~(Len(f.packets) < PACKET_WINDOWS[1]))
    IN  [i \in 1..Len(kept) |-> FullRecord(kept[i])]

\* full_results after the loop over flows_data.items()
FullResults(fs) == [i \in 1..Len(fs) |-> FullRecord(fs[i])]

\* window_results after the loop over flows_data.items() for one window
WindowResults(fs, window) ==
    LET kept == SelectSeq(fs, LAMBDA f : InWindow(f, window))
    IN  [i \in 1..Len(kept) |-> WindowRecord(kept[i], window)]

\* the keys of the returned dicts: str keys as they are, int keys marked
StrKey(w) == ToString(w)

IntKey(w) == "int " \o ToString(w)

\* {'full': 0, 5: 0, 10: 0, 15: 0, 20: 0}
ZeroCounts ==
    [k \in {"full"} \cup {IntKey(w) : w \in {5, 10, 15, 20}} |-> 0]

\* {'full': len(full_results), **window_counts}
ReturnedCounts(full, counts) ==
    [k \in {"full"} \cup {StrKey(PACKET_WINDOWS[i]) : i \in 1..Len(PACKET_WINDOWS)} |->
        IF k = "full" THEN Len(full)
        ELSE counts[CHOOSE i \in 1..Len(PACKET_WINDOWS) : StrKey(PACKET_WINDOWS[i]) = k]]

(***************************************************************************)
(* The captures of the model.                                              *)
(***************************************************************************)
SeqsUpTo(S, lo, hi) == UNION {[1..n -> S] : n \in lo..hi}

\* c with line l inserted before position i
InsertAt(c, i, l) == SubSeq(c, 1, i - 1) \o <<l>> \o SubSeq(c, i, Len(c))

\* the printed lines of a capture: short captures of the core lines, the
\* two-endpoint captures with one line of any kind inserted anywhere,
\* captures long enough to fill the first window, and the captures of the
\* endpoints with a colon
Captures ==
    SeqsUpTo(CoreLines, 0, MaxLines)
    \cup {InsertAt(c, i, l) : <<c, i, l>> \in
             {t \in SeqsUpTo({LineAB, LineBA}, 0, MaxLines - 1)
                       \X (1..MaxLines) \X AllLines : t[2] <= Len(t[1]) + 1}}
    \cup SeqsUpTo(FlowLines, PACKET_WINDOWS[1], MaxFlowLines)
    \cup SeqsUpTo(ColonLines, 1, 2)

\* result.stdout: every printed line ends with a newline
RECURSIVE Stdout(_)
Stdout(printed_lines) ==
    IF printed_lines = <<>> THEN <<>>
    ELSE Head(printed_lines) \o <<"\n">> \o Stdout(Tail(printed_lines))

\* lines = result.stdout.strip().split('\n')
StdoutLines(stdout) == Split(Strip(stdout, Whitespace \cup {"\n"}), "\n")

(***************************************************************************)
(* The batch of main: the files find_all_pcap_files returns, sorted by     *)
(* path, each with what tshark prints for it.                              *)
(***************************************************************************)
\* the paths under the root, in sorted order: a/x.pcap, a/y.pcap, b/x.pcap
Paths ==
    << [dir |-> "a", stem |-> "x"],
       [dir |-> "a", stem |-> "y"],
       [dir |-> "b", stem |-> "x"] >>

\* captures of the batches of several files: no line, one flow of two
\* packets, one flow of one packet, one flow that fills the first window
BatchCaptures ==
    { <<>>,
      <<LineAB, LineBA>>,
      <<LineCBInitial>>,
      <<LineAB, LineBA, LineAB, LineBA, LineAB>> }

FileOf(path, capture) ==
    [dir |-> path.dir, stem |-> path.stem, capture |-> capture]

\* the strictly increasing index lists of length n: n distinct paths in
\* sorted order
PathChoices(n) ==
    {c \in [1..n -> 1..Len(Paths)] : \A i \in 1..(n - 1) : c[i] < c[i + 1]}

Batches ==
    {<<FileOf(Paths[1], c)>> : c \in Captures}
    \cup {<<>>}
    \cup UNION {
           {[i \in 1..n |-> FileOf(Paths[choice[i]], caps[i])] :
               <<choice, caps>> \in PathChoices(n) \X [1..n -> BatchCaptures]}
           : n \in 2..MaxFiles}

\* config.DATASETS
DATASETS ==
    {StrKey(PACKET_WINDOWS[i]) : i \in 1..Len(PACKET_WINDOWS)} \cup {"full"}

\* OUTPUT_FOLDERS[variant] / f"{filename_base}.csv"
OutputPath(variant, file) == <<variant, StemOf(file)>>

\* df.to_csv(output_path): the file at that path now holds these rows
WriteCsv(csvs, path, rows) ==
    [q \in DOMAIN csvs \cup {path} |-> IF q = path THEN rows ELSE csvs[q]]

\* "for key, value in stats.items(): if key in total_stats: ... += value"
Accumulated(totals, counts) ==
    [k \in DOMAIN totals |->
        totals[k] + (IF k \in DOMAIN counts THEN counts[k] ELSE 0)]

(***************************************************************************)
(* The packet lists of the calls of the statistics alone: the empty list   *)
(* and the flows of the captures of one conversation.                      *)
(***************************************************************************)
Slices ==
    {<<>>} \cup
    {extract_quic_flows_tshark(StdoutLines(Stdout(c)))[1].packets :
        c \in SeqsUpTo(EngineLines, 1, MaxSliceLines)}

(***************************************************************************)
(* The state machine of main, analyze_pcap_file and                        *)
(* extract_quic_flows_tshark.                                              *)
(***************************************************************************)
NoRows == [i \in 1..Len(PACKET_WINDOWS) |-> <<>>]

NoCounts == [i \in 1..Len(PACKET_WINDOWS) |-> 0]

EmptyDict == [k \in {} |-> 0]

\* the locals of a call of analyze_pcap_file before it has done anything
FreshCall ==
    /\ lines = <<>>
    /\ idx = 1
    /\ pbar = 0
    /\ flows = <<>>
    /\ fi = 1
    /\ printed = [flows |-> 0, packets |-> 0]
    /\ full_results = <<>>
    /\ wi = 1
    /\ window_results = NoRows
    /\ window_counts = NoCounts
    /\ returned = EmptyDict

Init ==
    /\ files \in Batches
    /\ fnum = 1
    /\ announced = <<>>
    /\ total_stats = [k \in DATASETS |-> 0]
    /\ written = [q \in {} |-> <<>>]
    /\ reported = {}
    /\ pc = "start"
    /\ FreshCall
    /\ slice = <<>>
    /\ stats = EmptyDict

\* main prints "[i/n] name" and analyze_pcap_file runs tshark on the file
RunTshark ==
    /\ pc = "start"
    /\ fnum <= Len(files)
    /\ announced' = Append(announced, fnum)
    /\ lines' = StdoutLines(Stdout(files[fnum].capture))
    /\ pc' = "parse"
    /\ UNCHANGED <<files, fnum, total_stats, written, reported>>
    /\ UNCHANGED <<idx, pbar, flows, fi, printed, full_results, wi,
                   window_results, window_counts, returned>>
    /\ UNCHANGED engineVars

\* tshark fails and nothing catches the exception: the run ends there
TsharkAborts ==
    /\ pc = "start"
    /\ fnum <= Len(files)
    /\ announced' = Append(announced, fnum)
    /\ reported' = reported \cup {fnum}
    /\ returned' = ZeroCounts
    /\ pc' = "finished"
    /\ UNCHANGED <<files, fnum, total_stats, written>>
    /\ UNCHANGED <<lines, idx, pbar, flows, fi, printed, full_results, wi,
                   window_results, window_counts>>
    /\ UNCHANGED engineVars

\* tshark fails (CalledProcessError, tshark or the file missing): the
\* exception reaches "except Exception" of analyze_pcap_file, which prints
\* the error and returns the zero dict
TsharkFails ==
    /\ pc = "start"
    /\ fnum <= Len(files)
    /\ announced' = Append(announced, fnum)
    /\ reported' = reported \cup {fnum}
    /\ returned' = ZeroCounts
    /\ pc' = "failed"
    /\ UNCHANGED <<files, fnum, total_stats, written>>
    /\ UNCHANGED <<lines, idx, pbar, flows, fi, printed, full_results, wi,
                   window_results, window_counts>>
    /\ UNCHANGED engineVars

\* one iteration of "for line in lines"
ParseLine ==
    /\ pc = "parse"
    /\ idx <= Len(lines)
    /\ flows' = AddLine(flows, lines[idx])
    /\ pbar' = pbar + PbarStep(lines[idx])
    /\ idx' = idx + 1
    /\ UNCHANGED <<lines, pc, fi, printed, full_results, wi, window_results,
                   window_counts, returned>>
    /\ UNCHANGED <<batchVars, engineVars>>

\* print(f"  {len(flows)} flow, {len(lines)} packets found")
PrintFound ==
    /\ pc = "parse"
    /\ idx > Len(lines)
    /\ printed' = [flows |-> Len(flows), packets |-> Len(lines)]
    /\ pc' = "directions"
    /\ UNCHANGED <<lines, idx, pbar, flows, fi, full_results, wi,
                   window_results, window_counts, returned>>
    /\ UNCHANGED <<batchVars, engineVars>>

\* one iteration of "for flow_id, flow_data in flows.items()"
SetFlowDirections ==
    /\ pc = "directions"
    /\ fi <= Len(flows)
    /\ flows' = [flows EXCEPT ![fi] = SetDirections(@)]
    /\ fi' = fi + 1
    /\ UNCHANGED <<lines, pc, idx, pbar, printed, full_results, wi,
                   window_results, window_counts, returned>>
    /\ UNCHANGED <<batchVars, engineVars>>

\* a file without flows still gets an empty CSV of the full variant
ReturnNoFlowsWriting ==
    /\ pc = "directions"
    /\ fi > Len(flows)
    /\ flows = <<>>
    /\ returned' = ZeroCounts
    /\ written' = WriteCsv(written, OutputPath("full", files[fnum]), <<>>)
    /\ pc' = "done"
    /\ UNCHANGED <<lines, idx, pbar, flows, fi, printed, full_results, wi,
                   window_results, window_counts>>
    /\ UNCHANGED <<files, fnum, announced, total_stats, reported>>
    /\ UNCHANGED engineVars

\* extract_quic_flows_tshark returns no flow: analyze_pcap_file returns zeros
ReturnNoFlows ==
    /\ pc = "directions"
    /\ fi > Len(flows)
    /\ flows = <<>>
    /\ returned' = ZeroCounts
    /\ pc' = "done"
    /\ UNCHANGED <<lines, idx, pbar, flows, fi, printed, full_results, wi,
                   window_results, window_counts>>
    /\ UNCHANGED <<batchVars, engineVars>>

\* the full records are computed without waiting for the direction loop
ComputeFullEarly ==
    /\ pc = "directions"
    /\ flows # <<>>
    /\ full_results' = FullResults(flows)
    /\ written' = IF FullResults(flows) # <<>>
                  THEN WriteCsv(written, OutputPath("full", files[fnum]),
                                FullResults(flows))
                  ELSE written
    /\ pc' = "windows"
    /\ UNCHANGED <<lines, idx, pbar, flows, fi, printed, wi, window_results,
                   window_counts, returned>>
    /\ UNCHANGED <<files, fnum, announced, total_stats, reported>>
    /\ UNCHANGED engineVars

\* the loop that fills full_results, and the write of the full CSV
ComputeFull ==
    /\ pc = "directions"
    /\ fi > Len(flows)
    /\ flows # <<>>
    /\ full_results' = FullResults(flows)
    /\ written' = IF FullResults(flows) # <<>>
                  THEN WriteCsv(written, OutputPath("full", files[fnum]),
                                FullResults(flows))
                  ELSE written
    /\ pc' = "windows"
    /\ UNCHANGED <<lines, idx, pbar, flows, fi, printed, wi, window_results,
                   window_counts, returned>>
    /\ UNCHANGED <<files, fnum, announced, total_stats, reported>>
    /\ UNCHANGED engineVars

\* the same loop, then df.to_csv raises (output folder missing, disk full):
\* the error is printed and the zero dict returned
WriteFullFails ==
    /\ pc = "directions"
    /\ fi > Len(flows)
    /\ flows # <<>>
    /\ full_results' = FullResults(flows)
    /\ reported' = reported \cup {fnum}
    /\ returned' = ZeroCounts
    /\ pc' = "failed"
    /\ UNCHANGED <<lines, idx, pbar, flows, fi, printed, wi, window_results,
                   window_counts>>
    /\ UNCHANGED <<files, fnum, announced, total_stats, written>>
    /\ UNCHANGED engineVars

\* the window loop cuts the packet lists of the flows themselves
ComputeWindowTruncating ==
    /\ pc = "windows"
    /\ wi <= Len(PACKET_WINDOWS)
    /\ window_results' =
           [window_results EXCEPT ![wi] = WindowResults(flows, PACKET_WINDOWS[wi])]
    /\ window_counts' =
           [window_counts EXCEPT ![wi] = Len(WindowResults(flows, PACKET_WINDOWS[wi]))]
    /\ written' = IF WindowResults(flows, PACKET_WINDOWS[wi]) # <<>>
                  THEN WriteCsv(written,
                                OutputPath(StrKey(PACKET_WINDOWS[wi]), files[fnum]),
                                WindowResults(flows, PACKET_WINDOWS[wi]))
                  ELSE written
    /\ flows' = [i \in 1..Len(flows) |->
                    [flows[i] EXCEPT !.packets = Slice(@, PACKET_WINDOWS[wi])]]
    /\ wi' = wi + 1
    /\ UNCHANGED <<lines, pc, idx, pbar, fi, printed, full_results, returned>>
    /\ UNCHANGED <<files, fnum, announced, total_stats, reported>>
    /\ UNCHANGED engineVars

\* one iteration of "for window in PACKET_WINDOWS": the rows of the window
\* and the write of its CSV
ComputeWindow ==
    /\ pc = "windows"
    /\ wi <= Len(PACKET_WINDOWS)
    /\ window_results' =
           [window_results EXCEPT ![wi] = WindowResults(flows, PACKET_WINDOWS[wi])]
    /\ window_counts' =
           [window_counts EXCEPT ![wi] = Len(WindowResults(flows, PACKET_WINDOWS[wi]))]
    /\ written' = IF WindowResults(flows, PACKET_WINDOWS[wi]) # <<>>
                  THEN WriteCsv(written,
                                OutputPath(StrKey(PACKET_WINDOWS[wi]), files[fnum]),
                                WindowResults(flows, PACKET_WINDOWS[wi]))
                  ELSE written
    /\ wi' = wi + 1
    /\ UNCHANGED <<lines, pc, idx, pbar, flows, fi, printed, full_results, returned>>
    /\ UNCHANGED <<files, fnum, announced, total_stats, reported>>
    /\ UNCHANGED engineVars

\* the same iteration, then df.to_csv of the window raises
WriteWindowFails ==
    /\ pc = "windows"
    /\ wi <= Len(PACKET_WINDOWS)
    /\ WindowResults(flows, PACKET_WINDOWS[wi]) # <<>>
    /\ window_results' =
           [window_results EXCEPT ![wi] = WindowResults(flows, PACKET_WINDOWS[wi])]
    /\ window_counts' =
           [window_counts EXCEPT ![wi] = Len(WindowResults(flows, PACKET_WINDOWS[wi]))]
    /\ reported' = reported \cup {fnum}
    /\ returned' = ZeroCounts
    /\ pc' = "failed"
    /\ UNCHANGED <<lines, idx, pbar, flows, fi, printed, full_results, wi>>
    /\ UNCHANGED <<files, fnum, announced, total_stats, written>>
    /\ UNCHANGED engineVars

\* return {'full': len(full_results), **window_counts}
Return ==
    /\ pc = "windows"
    /\ wi > Len(PACKET_WINDOWS)
    /\ returned' = ReturnedCounts(full_results, window_counts)
    /\ pc' = "done"
    /\ UNCHANGED <<lines, idx, pbar, flows, fi, printed, full_results, wi,
                   window_results, window_counts>>
    /\ UNCHANGED <<batchVars, engineVars>>

\* main adds the returned counts to total_stats and goes to the next file;
\* the locals of the finished call are gone
Accumulate ==
    /\ pc \in {"done", "failed"}
    /\ total_stats' = Accumulated(total_stats, returned)
    /\ fnum' = fnum + 1
    /\ pc' = "start"
    /\ lines' = <<>>
    /\ idx' = 1
    /\ pbar' = 0
    /\ flows' = <<>>
    /\ fi' = 1
    /\ printed' = [flows |-> 0, packets |-> 0]
    /\ full_results' = <<>>
    /\ wi' = 1
    /\ window_results' = NoRows
    /\ window_counts' = NoCounts
    /\ returned' = EmptyDict
    /\ UNCHANGED <<files, announced, written, reported>>
    /\ UNCHANGED engineVars

\* the loop over pcap_files is over (or no file was found): main prints the
\* totals and returns
Finish ==
    /\ pc = "start"
    /\ fnum > Len(files)
    /\ pc' = "finished"
    /\ UNCHANGED <<lines, idx, pbar, flows, fi, printed, full_results, wi,
                   window_results, window_counts, returned>>
    /\ UNCHANGED <<batchVars, engineVars>>

Next ==
    \/ RunTshark
    \/ TsharkFails
    \/ ParseLine
    \/ PrintFound
    \/ SetFlowDirections
    \/ ReturnNoFlows
    \/ ComputeFull
    \/ WriteFullFails
    \/ ComputeWindow
    \/ WriteWindowFails
    \/ Return
    \/ Accumulate
    \/ Finish

Spec == Init /\ [][Next]_vars

\* where main and the running call are: the program counter, the indices
\* of the loops over lines, flows and windows, and the number of the file
ctl == <<pc, idx, fi, wi, fnum>>

\* the moves of control of the steps of Next, with their guards
ControlStep ==
    \/ /\ pc = "start"
       /\ fnum <= Len(files)
       /\ pc' \in {"parse", "failed"}
       /\ UNCHANGED <<idx, fi, wi, fnum>>
    \/ /\ pc = "parse"
       /\ idx <= Len(lines)
       /\ idx' = idx + 1
       /\ UNCHANGED <<pc, fi, wi, fnum>>
    \/ /\ pc = "parse"
       /\ idx > Len(lines)
       /\ pc' = "directions"
       /\ UNCHANGED <<idx, fi, wi, fnum>>
    \/ /\ pc = "directions"
       /\ fi <= Len(flows)
       /\ fi' = fi + 1
       /\ UNCHANGED <<pc, idx, wi, fnum>>
    \/ /\ pc = "directions"
       /\ fi > Len(flows)
       /\ pc' \in (IF flows = <<>> THEN {"done"} ELSE {"windows", "failed"})
       /\ UNCHANGED <<idx, fi, wi, fnum>>
    \/ /\ pc = "windows"
       /\ wi <= Len(PACKET_WINDOWS)
       /\ \/ wi' = wi + 1 /\ pc' = pc
          \/ wi' = wi /\ pc' = "failed"
       /\ UNCHANGED <<idx, fi, fnum>>
    \/ /\ pc = "windows"
       /\ wi > Len(PACKET_WINDOWS)
       /\ pc' = "done"
       /\ UNCHANGED <<idx, fi, wi, fnum>>
    \/ /\ pc \in {"done", "failed"}
       /\ pc' = "start"
       /\ fnum' = fnum + 1
       /\ idx' = 1
       /\ fi' = 1
       /\ wi' = 1
    \/ /\ pc = "start"
       /\ fnum > Len(files)
       /\ pc' = "finished"
       /\ UNCHANGED <<idx, fi, wi, fnum>>

\* main is one sequential process that waits for nothing but tshark and the
\* file system, which return or raise: whenever control can move, it does
FairSpec == Spec /\ WF_ctl(ControlStep)

(***************************************************************************)
(* A call of calculate_comprehensive_statistics on its own.                *)
(***************************************************************************)
InitEngine ==
    /\ slice \in Slices
    /\ stats = EmptyDict
    /\ pc = "engine"
    /\ files = <<>>
    /\ fnum = 1
    /\ announced = <<>>
    /\ total_stats = [k \in DATASETS |-> 0]
    /\ written = [q \in {} |-> <<>>]
    /\ reported = {}
    /\ FreshCall

EngineCall ==
    /\ pc = "engine"
    /\ stats' = calculate_comprehensive_statistics(slice)
    /\ pc' = "engine_done"
    /\ UNCHANGED <<slice, idx, pbar, lines, flows, fi, printed, full_results,
                   wi, window_results, window_counts, returned>>
    /\ UNCHANGED batchVars

NextEngine == EngineCall

EngineSpec == InitEngine /\ [][NextEngine]_vars

(***************************************************************************)
(* Properties.                                                             *)
(***************************************************************************)
\* the lines of ls that yield a packet of the flow with this key
LinesOfFlow(ls, flow_id) ==
    SelectSeq(ls, LAMBDA l : /\ Parsed(l).outcome = "packet"
                             /\ FlowId(Parsed(l).packet_info) = flow_id)

\* C1: leakage isolation.  Every row of the N-window variant equals the row
\* that the capture made of only the first N lines of that flow produces:
\* what follows a flow's first N packets, and every other line of the
\* capture, has no influence on any field of the row.
C1_LeakageIsolation ==
    pc = "done" =>
        \A k \in 1..Len(PACKET_WINDOWS) :
            \A r \in 1..Len(window_results[k]) :
                LET row == window_results[k][r]
                    N == PACKET_WINDOWS[k]
                    prefix == SubSeq(LinesOfFlow(lines, row.flow_id), 1, N)
                IN  /\ Len(LinesOfFlow(lines, row.flow_id)) >= N
                    /\ WindowResults(extract_quic_flows_tshark(prefix), N) = <<row>>

\* a flow longer than the first window has a row in that window's variant
C1_Witness ==
    /\ pc = "done"
    /\ \E i \in 1..Len(flows) :
          /\ Len(flows[i].packets) > PACKET_WINDOWS[1]
          /\ \E r \in 1..Len(window_results[1]) :
                window_results[1][r].flow_id = flows[i].flow_id

\* the packet with the endpoints of p exchanged
Reversed(p) ==
    [p EXCEPT !.src_ip = p.dst_ip, !.src_port = p.dst_port,
              !.dst_ip = p.src_ip, !.dst_port = p.src_port]

\* C2: flow-key symmetry.  The key of a flow is the key of each of its
\* packets and of the packet in the opposite direction, it is the smaller
\* of the packet's two directional strings, and two packets of the capture
\* with exchanged endpoints are in the same flow.
C2_FlowKeySymmetry ==
    \A i \in 1..Len(flows) :
        \A a \in 1..Len(flows[i].packets) :
            LET p == flows[i].packets[a]
            IN  /\ FlowId(Reversed(p)) = flows[i].flow_id
                /\ flows[i].flow_id \in {FlowId1(p), FlowId2(p)}
                /\ ~StrLess(FlowId1(p), flows[i].flow_id)
                /\ ~StrLess(FlowId2(p), flows[i].flow_id)
                /\ \A j \in 1..Len(flows) :
                      \A b \in 1..Len(flows[j].packets) :
                          LET q == flows[j].packets[b]
                          IN  (/\ q.src_ip = p.dst_ip /\ q.src_port = p.dst_port
                               /\ q.dst_ip = p.src_ip /\ q.dst_port = p.src_port)
                              => i = j

\* a flow that started with B->A and also holds a packet A->B
C2_Witness ==
    /\ pc = "done"
    /\ \E i \in 1..Len(flows) :
          /\ Len(flows[i].packets) >= 2
          /\ flows[i].packets[1].src_ip = <<"b">>
          /\ \E a \in 2..Len(flows[i].packets) :
                flows[i].packets[a].src_ip = <<"a">>

\* C3: window exclusion.  Once the N-window variant is computed, a flow has
\* a row in it iff it has at least N packets, it has one row only, and the
\* row counts exactly N packets whose bytes are those of the first N lines
\* of the flow in the capture.
C3_WindowExclusion ==
    \A k \in 1..Len(PACKET_WINDOWS) :
        (pc \in {"windows", "done"} /\ k < wi) =>
            LET N == PACKET_WINDOWS[k]
                rows == window_results[k]
            IN  /\ \A i \in 1..Len(flows) :
                      Cardinality({r \in 1..Len(rows) :
                                      rows[r].flow_id = flows[i].flow_id})
                      = IF Len(flows[i].packets) >= N THEN 1 ELSE 0
                /\ \A r \in 1..Len(rows) :
                      LET first == SubSeq(LinesOfFlow(lines, rows[r].flow_id), 1, N)
                      IN  /\ rows[r].total_packets = N
                          /\ rows[r].window_size = N
                          /\ Len(first) = N
                          /\ rows[r].total_bytes =
                                SumSeq([n \in 1..N |-> Parsed(first[n]).packet_info.size])

\* one flow fills the first window and another one is too short for it
C3_Witness ==
    /\ pc = "done"
    /\ Len(window_results[1]) = 1
    /\ \E i, j \in 1..Len(flows) :
          /\ Len(flows[i].packets) >= PACKET_WINDOWS[1]
          /\ Len(flows[j].packets) < PACKET_WINDOWS[1]

SafeMetadataFields ==
    {"file", "flow_id", "window_size", "client_ip", "client_port",
     "server_ip", "server_port"}

\* C4: safe metadata.  Beside the features of its slice, a windowed row has
\* exactly the seven metadata fields, and each field of the row has the
\* value it has when the capture ends with the flow's N-th packet.
C4_SafeMetadata ==
    \A k \in 1..Len(PACKET_WINDOWS) :
        \A r \in 1..Len(window_results[k]) :
            LET row == window_results[k][r]
                N == PACKET_WINDOWS[k]
                i == FlowIndex(flows, row.flow_id)
                features == calculate_comprehensive_statistics(
                                SubSeq(flows[i].packets, 1, N))
                short == extract_quic_flows_tshark(
                             SubSeq(LinesOfFlow(lines, row.flow_id), 1, N))
            IN  /\ (DOMAIN row) \ (DOMAIN features) = SafeMetadataFields
                /\ Len(short) = 1
                /\ \A name \in DOMAIN row :
                      row[name] = (features @@
                                   [file |-> FileName,
                                    flow_id |-> short[1].flow_id,
                                    window_size |-> N,
                                    client_ip |-> short[1].client_ip,
                                    client_port |-> short[1].client_port,
                                    server_ip |-> short[1].server_ip,
                                    server_port |-> short[1].server_port])[name]

\* a row of the first window for a flow that goes on after the window with
\* a packet from the server
C4_Witness ==
    /\ pc = "done"
    /\ \E r \in 1..Len(window_results[1]) :
          LET f == flows[FlowIndex(flows, window_results[1][r].flow_id)]
          IN  /\ Len(f.packets) = PACKET_WINDOWS[1] + 1
              /\ f.packets[Len(f.packets)].direction = "incoming"
              /\ window_results[1][r].window_size = PACKET_WINDOWS[1]

\* C5: the full variant.  Once the full variant is computed it has exactly
\* one row per flow of the capture, every flow has at least one packet, the
\* row's total_packets is the number of lines of the capture that yield a
\* packet of that flow, and every line that yields a packet has its flow's
\* row, whether or not the flow is long enough for any window.
C5_FullVariant ==
    pc \in {"windows", "done"} =>
        /\ Len(full_results) = Len(flows)
        /\ \A i \in 1..Len(flows) :
              /\ Len(flows[i].packets) >= 1
              /\ \E r \in 1..Len(full_results) :
                    /\ full_results[r].flow_id = flows[i].flow_id
                    /\ full_results[r].total_packets =
                           Len(LinesOfFlow(lines, flows[i].flow_id))
                    /\ \A r2 \in 1..Len(full_results) :
                          full_results[r2].flow_id = flows[i].flow_id => r2 = r
        /\ \A n \in 1..Len(lines) :
              Parsed(lines[n]).outcome = "packet" =>
                  \E r \in 1..Len(full_results) :
                      full_results[r].flow_id = FlowId(Parsed(lines[n]).packet_info)

\* a 3-packet flow, absent from the first window's variant and present in
\* the full variant with total_packets = 3
C5_Witness ==
    /\ pc = "done"
    /\ \E i \in 1..Len(flows) :
          /\ Len(flows[i].packets) = 3
          /\ \A r \in 1..Len(window_results[1]) :
                window_results[1][r].flow_id # flows[i].flow_id
          /\ \E r \in 1..Len(full_results) :
                /\ full_results[r].flow_id = flows[i].flow_id
                /\ full_results[r].total_packets = 3

\* C6: roles and directions.  Once the direction loop has passed a flow, its
\* client is the source and its server the destination of the first line of
\* the capture that yields a packet of the flow, each packet is outgoing
\* exactly when its source is the client and incoming otherwise, and the
\* first packet is outgoing.
C6_RolesFromFirstPacket ==
    \A i \in 1..Len(flows) :
        (pc \in {"windows", "done"} \/ (pc = "directions" /\ i < fi)) =>
            LET first == Parsed(LinesOfFlow(lines, flows[i].flow_id)[1]).packet_info
            IN  /\ flows[i].client_ip = first.src_ip
                /\ flows[i].client_port = first.src_port
                /\ flows[i].server_ip = first.dst_ip
                /\ flows[i].server_port = first.dst_port
                /\ flows[i].packets[1].direction = "outgoing"
                /\ \A a \in 1..Len(flows[i].packets) :
                      LET p == flows[i].packets[a]
                      IN  /\ p.direction \in {"outgoing", "incoming"}
                          /\ p.direction = "outgoing" <=>
                                (p.src_ip = first.src_ip /\ p.src_port = first.src_port)

\* a flow opened by B whose later packets go both ways
C6_Witness ==
    /\ pc = "done"
    /\ \E i \in 1..Len(flows) :
          /\ flows[i].client_ip = <<"b">>
          /\ Len(flows[i].packets) >= 3
          /\ \E a, b \in 2..Len(flows[i].packets) :
                /\ flows[i].packets[a].direction = "incoming"
                /\ flows[i].packets[b].direction = "outgoing"

\* the address of an end: the IPv4 field, else the IPv6 field
AddressMissing(fields, v4, v6) == fields[v4] = <<>> /\ fields[v6] = <<>>

\* the lines C7 says yield no packet
SkipClaimed(line) ==
    \/ Strip(line, Whitespace) = <<>>
    \/ Len(Fields(line)) < 8
    \/ LET fields == Fields(line)
       IN  \/ ~IsIntLiteral(fields[7])
           \/ ~IsFloatLiteral(fields[8])
           \/ AddressMissing(fields, 1, 3)
           \/ AddressMissing(fields, 2, 4)
           \/ ~IsIntLiteral(fields[5])
           \/ ~IsIntLiteral(fields[6])

\* the lines that yield no packet: an empty frame size or timestamp is read
\* as 0 and a port only has to be non-empty
SkipAmended(line) ==
    \/ Strip(line, Whitespace) = <<>>
    \/ Len(Fields(line)) < 8
    \/ LET fields == Fields(line)
       IN  \/ fields[7] # <<>> /\ ~IsIntLiteral(fields[7])
           \/ fields[8] # <<>> /\ ~IsFloatLiteral(fields[8])
           \/ AddressMissing(fields, 1, 3)
           \/ AddressMissing(fields, 2, 4)
           \/ fields[5] = <<>>
           \/ fields[6] = <<>>

\* C7 as stated: a step of the parse loop on a line that is blank, has
\* fewer than 8 fields, or whose frame size, timestamp, source address,
\* destination address, source port or destination port is empty or not
\* parsable as its type, appends no packet.
C7_SkipAsClaimed ==
    [][(pc = "parse" /\ idx <= Len(lines) /\ SkipClaimed(lines[idx]))
         => flows' = flows]_vars

\* C7 amended: a step of the parse loop appends no packet when the line is
\* blank, has fewer than 8 fields, has no source or no destination address,
\* has an empty port, or has a non-empty frame size or timestamp that is not
\* a number.
C7_SkipAmended ==
    [][(pc = "parse" /\ idx <= Len(lines) /\ SkipAmended(lines[idx]))
         => flows' = flows]_vars

\* the parse loop has just passed a full-length line with an unparsable
\* number, after appending a packet
C7_Witness ==
    /\ pc = "parse"
    /\ idx > 2
    /\ flows # <<>>
    /\ Len(Fields(lines[idx - 1])) >= 8
    /\ Fields(lines[idx - 1])[7] # <<>>
    /\ ~IsIntLiteral(Fields(lines[idx - 1])[7])

\* C8: a malformed line does not disturb the parse.  The run reaches its end
\* with the flows, the full rows and the rows of every window that the
\* capture without its unparsable lines produces.
C8_MalformedLineHarmless ==
    pc = "done" =>
        LET clean == SelectSeq(lines, LAMBDA l : ~SkipAmended(l))
            fs == extract_quic_flows_tshark(clean)
        IN  /\ flows = fs
            /\ full_results = FullResults(fs)
            /\ \A k \in 1..Len(PACKET_WINDOWS) :
                  window_results[k] = WindowResults(fs, PACKET_WINDOWS[k])

\* a 6-field line between two packets of one flow
C8_Witness ==
    /\ pc = "done"
    /\ Len(lines) = 3
    /\ Len(Fields(lines[2])) = 6
    /\ Len(flows) = 1
    /\ Len(flows[1].packets) = 2
    /\ full_results[1].total_packets = 2

\* number of packets of all flows
RECURSIVE PacketCount(_)
PacketCount(fs) ==
    IF fs = <<>> THEN 0 ELSE Len(Head(fs).packets) + PacketCount(Tail(fs))

\* C9: skips are counted and reported.  After the parse the reported packet
\* count is the number of lines that yielded a packet, and the remaining
\* lines are the skipped ones.
C9_SkipsCounted ==
    pc \in {"directions", "windows", "done"} =>
        /\ printed.packets = PacketCount(flows)
        /\ Len(lines) - printed.packets =
               Len(SelectSeq(lines, LAMBDA l : Parsed(l).outcome # "packet"))

\* the capture of scenario 1: A->B of 100 bytes at 0, then B->A of 200
\* bytes at 1, both without packet type
Scenario1 ==
    /\ Len(lines) = 2
    /\ Parsed(lines[1]).outcome = "packet"
    /\ Parsed(lines[2]).outcome = "packet"
    /\ LET p == Parsed(lines[1]).packet_info
           q == Parsed(lines[2]).packet_info
       IN  /\ p.src_ip = <<"a">> /\ p.src_port = <<"1">>
           /\ p.dst_ip = <<"b">> /\ p.dst_port = <<"2">>
           /\ p.size = 100 /\ p.timestamp = 0 /\ p.packet_type = <<>>
           /\ q = [Reversed(p) EXCEPT !.size = 200, !.timestamp = 1]

\* the same two packets in the other order
Scenario1Swapped ==
    /\ Len(lines) = 2
    /\ Parsed(lines[1]).outcome = "packet"
    /\ Parsed(lines[2]).outcome = "packet"
    /\ LET p == Parsed(lines[2]).packet_info
           q == Parsed(lines[1]).packet_info
       IN  /\ p.src_ip = <<"a">> /\ p.src_port = <<"1">>
           /\ p.dst_ip = <<"b">> /\ p.dst_port = <<"2">>
           /\ p.size = 100 /\ p.timestamp = 0 /\ p.packet_type = <<>>
           /\ q = [Reversed(p) EXCEPT !.size = 200, !.timestamp = 1]

Scenario1Key == <<"a", ":", "1", "-", ">", "b", ":", "2">>

\* what scenario 1 states but for the duration and the mean inter-arrival time
Scenario1Common ==
    /\ (Scenario1 \/ Scenario1Swapped) =>
          /\ Len(flows) = 1
          /\ Len(full_results) = 1
          /\ full_results[1].flow_id = Scenario1Key
          /\ full_results[1].total_packets = 2
          /\ full_results[1].packet_size_mean = <<150, 1>>
          /\ full_results[1].short_header_ratio = <<1, 1>>
    /\ Scenario1 =>
          /\ full_results[1].client_ip = <<"a">>
          /\ full_results[1].client_port = <<"1">>

\* C10 as stated: scenario 1 gives duration 1.0 and iat_mean 1.0.
C10_Scenario1AsClaimed ==
    pc = "done" =>
        /\ Scenario1Common
        /\ Scenario1 =>
              /\ full_results[1].duration = 1
              /\ full_results[1].iat_mean = <<1, 1>>

\* C10 amended: scenario 1 gives one flow with the same key in both orders,
\* client A, total_packets 2, packet_size_mean 150, short_header_ratio 1.0,
\* and duration 0 and iat_mean 0, the timestamp 0 not being a valid (> 0)
\* timestamp.
C10_Scenario1Amended ==
    pc = "done" =>
        /\ Scenario1Common
        /\ Scenario1 =>
              /\ full_results[1].duration = 0
              /\ full_results[1].iat_mean = Zero

C10_Witness == pc = "done" /\ Scenario1

(***************************************************************************)
(* Properties of the statistics engine.                                    *)
(***************************************************************************)
RatioFeatures ==
    {"short_header_ratio", "long_header_ratio", "initial_ratio",
     "handshake_ratio", "zerortt_ratio", "onertt_ratio", "retry_ratio"}

CvFeatures == {"packet_size_cv", "packet_size_out_cv", "packet_size_in_cv"}

\* C11: division-by-zero safety.  The statistics of an empty packet slice
\* hold every ratio feature and every coefficient-of-variation feature,
\* each with value 0.
C11_EmptySliceZeros ==
    (pc = "engine_done" /\ slice = <<>>) =>
        /\ \A k \in RatioFeatures : k \in DOMAIN stats /\ stats[k] = Zero
        /\ \A k \in CvFeatures : k \in DOMAIN stats /\ stats[k] = Sqrt(Zero)

\* the tags of the priority order, and the type values that indicate each
TagOrder ==
    <<"initial_packets", "handshake_packets", "zerortt_packets", "retry_packets">>

TagWords ==
    [initial_packets |-> {<<"i", "n", "i", "t", "i", "a", "l">>},
     handshake_packets |-> {<<"h", "a", "n", "d", "s", "h", "a", "k", "e">>},
     zerortt_packets |-> {<<"0", "-", "r", "t", "t">>,
                          <<"z", "e", "r", "o", "r", "t", "t">>},
     retry_packets |-> {<<"r", "e", "t", "r", "y">>}]

TagCodes ==
    [initial_packets |-> <<"0">>, handshake_packets |-> <<"2">>,
     zerortt_packets |-> <<"1">>, retry_packets |-> <<"3">>]

\* the positions in TagOrder of the tags the packet's type matches
MatchedTags(pkt) ==
    {t \in 1..Len(TagOrder) :
        \/ \E w \in TagWords[TagOrder[t]] : Contains(Lower(pkt.packet_type), w)
        \/ Lower(pkt.packet_type) = TagCodes[TagOrder[t]]}

\* the counters a packet is allowed to increment: the earliest matched tag,
\* one-rtt for an unmatched short-header packet, none otherwise
CountersOf(pkt) ==
    IF MatchedTags(pkt) # {}
    THEN {TagOrder[CHOOSE t \in MatchedTags(pkt) : \A u \in MatchedTags(pkt) : t <= u]}
    ELSE IF pkt.is_short_header THEN {"onertt_packets"}
    ELSE {}

CountedUnder(pkts, key) ==
    Cardinality({i \in 1..Len(pkts) : key \in CountersOf(pkts[i])})

\* C12: first-match classification.  Each of the five counters of a slice
\* is the number of its packets whose earliest matching tag (in the order
\* initial, handshake, zero-rtt, retry, then one-rtt for an unmatched
\* short-header packet) is that counter, so a packet is counted at most
\* once and an unmatched long-header packet is counted nowhere.
C12_FirstMatchClassification ==
    (pc = "engine_done" /\ slice # <<>>) =>
        /\ \A key \in ClassKeys : stats[key] = CountedUnder(slice, key)
        /\ \A i \in 1..Len(slice) : Cardinality(CountersOf(slice[i])) <= 1
        /\ stats["initial_packets"] + stats["handshake_packets"]
             + stats["zerortt_packets"] + stats["retry_packets"]
             + stats["onertt_packets"]
           = Len(slice) - Cardinality({i \in 1..Len(slice) : CountersOf(slice[i]) = {}})

\* a slice with a packet that matches two tags, counted under the earlier
\* one only, and a long-header packet of unrecognized type, counted nowhere
C12_Witness ==
    /\ pc = "engine_done"
    /\ \E i \in 1..Len(slice) :
          /\ Cardinality(MatchedTags(slice[i])) > 1
          /\ stats["retry_packets"] = 0
          /\ stats["initial_packets"] = 1
    /\ \E i \in 1..Len(slice) :
          /\ slice[i].is_long_header
          /\ MatchedTags(slice[i]) = {}
    /\ stats["total_packets"] = 3
    /\ stats["onertt_packets"] = 1

(***************************************************************************)
(* Properties of the records of a file.                                    *)
(***************************************************************************)
FeatureNames ==
    {"total_packets", "outgoing_packets", "incoming_packets",
     "total_bytes", "outgoing_bytes", "incoming_bytes",
     "packet_size_mean", "packet_size_min", "packet_size_max",
     "packet_size_std", "packet_size_var", "packet_size_cv",
     "packet_size_out_mean", "packet_size_out_min", "packet_size_out_max",
     "packet_size_out_std", "packet_size_out_var", "packet_size_out_cv",
     "packet_size_in_mean", "packet_size_in_min", "packet_size_in_max",
     "packet_size_in_std", "packet_size_in_var", "packet_size_in_cv",
     "iat_mean", "iat_min", "iat_max", "iat_std", "iat_var",
     "iat_out_mean", "iat_out_min", "iat_out_max", "iat_out_std", "iat_out_var",
     "iat_in_mean", "iat_in_min", "iat_in_max", "iat_in_std", "iat_in_var",
     "short_header_count", "long_header_count",
     "short_header_ratio", "long_header_ratio",
     "spin_bit_count", "spin_bit_ratio", "no_spin_bit_ratio",
     "initial_packets", "handshake_packets", "zerortt_packets",
     "onertt_packets", "retry_packets",
     "initial_ratio", "handshake_ratio", "zerortt_ratio", "onertt_ratio",
     "retry_ratio",
     "entropy_direction", "entropy_packet_size", "duration"}

FullMetadataNames ==
    {"file", "flow_id", "client_ip", "client_port", "server_ip", "server_port"}

\* the flow a record was computed from
FlowOfRow(row) == flows[CHOOSE i \in 1..Len(flows) : flows[i].flow_id = row.flow_id]

\* every record of a window
WindowRows ==
    UNION {{window_results[k][i] : i \in 1..Len(window_results[k])} :
              k \in 1..Len(PACKET_WINDOWS)}

FullRows == {full_results[i] : i \in 1..Len(full_results)}

\* C13: fixed schema.  The features of every full record and of every
\* window record are the same set of names, and the five class counters
\* are among them, 0 where the packets of the record hold no packet of the
\* class.
C13_FixedSchema ==
    /\ \A row \in FullRows :
          /\ DOMAIN row = FeatureNames \cup FullMetadataNames
          /\ \A key \in ClassKeys :
                row[key] = CountedUnder(FlowOfRow(row).packets, key)
    /\ \A row \in WindowRows :
          /\ DOMAIN row = FeatureNames \cup FullMetadataNames \cup {"window_size"}
          /\ \A key \in ClassKeys :
                row[key] = CountedUnder(
                    SubSeq(FlowOfRow(row).packets, 1, row.window_size), key)

\* a file with a one-packet flow and a flow that fills the first window;
\* classes that no packet of a record belongs to are there with 0
C13_Witness ==
    /\ pc = "done"
    /\ \E row \in FullRows :
          /\ row.total_packets = 1
          /\ row.initial_packets = 1
          /\ row.onertt_packets = 0
    /\ \E row \in WindowRows :
          /\ row.initial_packets = 0
          /\ row.retry_packets = 0
          /\ row.onertt_packets = PACKET_WINDOWS[1]

(***************************************************************************)
(* Properties of the batch.                                                *)
(***************************************************************************)
\* the flows of the i-th file of the batch, from its capture alone
FlowsOfFile(i) == extract_quic_flows_tshark(StdoutLines(Stdout(files[i].capture)))

\* the number of records of a variant the i-th file yields when it is
\* processed without failure
RecordCount(i, variant) ==
    IF variant = "full" THEN Len(FlowsOfFile(i))
    ELSE LET w == CHOOSE n \in Range(PACKET_WINDOWS) : ToString(n) = variant
         IN  Len(SelectSeq(FlowsOfFile(i), LAMBDA f : Len(f.packets) >= w))

\* the sum of the counts of the files 1..n that did not fail
RECURSIVE TotalOfFiles(_, _)
TotalOfFiles(n, variant) ==
    IF n = 0 THEN 0
    ELSE TotalOfFiles(n - 1, variant)
         + (IF n \in reported THEN 0 ELSE RecordCount(n, variant))

\* C14: failure isolation across files.  The batch always terminates; a
\* failed file is reported and returns 0 for every variant; when the batch
\* has terminated every discovered file has been taken up exactly once, in
\* order, and the totals are the sums of the record counts of the files
\* that did not fail; and the records of a file that did not fail are those
\* of its own capture, whatever happened to the files before it.
C14_FailureIsolation ==
    /\ <>(pc = "finished")
    /\ [](pc = "failed" =>
            /\ fnum \in reported
            /\ \A k \in DOMAIN returned : returned[k] = 0)
    /\ [](pc = "finished" =>
            /\ announced = [i \in 1..Len(files) |-> i]
            /\ \A k \in DATASETS : total_stats[k] = TotalOfFiles(Len(files), k))
    /\ [](pc = "done" =>
            /\ fnum \notin reported
            /\ flows = FlowsOfFile(fnum)
            /\ flows # <<>> =>
                  /\ full_results = FullResults(FlowsOfFile(fnum))
                  /\ \A k \in 1..Len(PACKET_WINDOWS) :
                        window_results[k] =
                            WindowResults(FlowsOfFile(fnum), PACKET_WINDOWS[k]))

\* a batch of two files that has terminated: the first file failed, the
\* second was processed and its records are in the totals
C14_Witness ==
    /\ pc = "finished"
    /\ Len(files) = 2
    /\ reported = {1}
    /\ announced = <<1, 2>>
    /\ total_stats["full"] = 1
    /\ total_stats["5"] = 1

\* the records of a variant that the i-th file of the batch yields: those of
\* its own capture, under its own name
RecordsOfFile(i, variant) ==
    LET rows == IF variant = "full" THEN FullResults(FlowsOfFile(i))
                ELSE WindowResults(FlowsOfFile(i),
                         CHOOSE n \in Range(PACKET_WINDOWS) : ToString(n) = variant)
    IN  [r \in 1..Len(rows) |-> [rows[r] EXCEPT !.file = NameOf(files[i])]]

\* the last file of the batch has returned: nothing is written after that
BatchOver == pc = "done" /\ fnum = Len(files)

\* C15: one output file per (capture file, variant).  After a batch without
\* failures, every pair of a capture file and a variant that produced a
\* record has an output file of its own, which holds exactly the records of
\* that capture for that variant.
C15_OneOutputPerFileAndVariant ==
    (BatchOver /\ reported = {}) =>
        \A i \in 1..Len(files) : \A variant \in DATASETS :
            RecordsOfFile(i, variant) # <<>> =>
                /\ OutputPath(variant, files[i]) \in DOMAIN written
                /\ written[OutputPath(variant, files[i])] = RecordsOfFile(i, variant)
                /\ \A j \in 1..Len(files) :
                      (j # i /\ RecordsOfFile(j, variant) # <<>>) =>
                          OutputPath(variant, files[j]) # OutputPath(variant, files[i])

(***************************************************************************)
(* Properties of the parser and of the flow assembler.                     *)
(***************************************************************************)
\* the step parses one line
ParsesLine == pc = "parse" /\ idx <= Len(lines)

\* the packet a step has appended: the last packet of the one flow that is
\* new or has grown
AppendedTo(before, after) ==
    CHOOSE i \in 1..Len(after) :
        \/ i > Len(before)
        \/ Len(after[i].packets) > Len(before[i].packets)

AppendedPacket(before, after) ==
    LET packets == after[AppendedTo(before, after)].packets
    IN  packets[Len(packets)]

\* the address of one end: the IPv4 field when it is not empty, otherwise
\* the IPv6 field
SelectedAddress(fields, v4, v6) == IF fields[v4] = <<>> THEN fields[v6] ELSE fields[v4]

\* C16: address selection.  A line whose source or destination has neither
\* an IPv4 nor an IPv6 address adds no packet; the packet of any other line
\* has, for each end, the IPv4 field when it is non-empty and otherwise the
\* IPv6 field.
C16_AddressSelection ==
    [][ParsesLine =>
          LET fields == Fields(lines[idx])
          IN  /\ (/\ Len(fields) >= 4
                  /\ \/ AddressMissing(fields, 1, 3)
                     \/ AddressMissing(fields, 2, 4)) => flows' = flows
              /\ flows' # flows =>
                    /\ AppendedPacket(flows, flows').src_ip = SelectedAddress(fields, 1, 3)
                    /\ AppendedPacket(flows, flows').dst_ip = SelectedAddress(fields, 2, 4)
      ]_vars

\* a line that carries both an IPv4 and an IPv6 source and destination has
\* just been parsed: its packet has the IPv4 ones
C16_Witness ==
    /\ pc = "parse"
    /\ idx > 1
    /\ lines[idx - 1] = LineBothFamilies
    /\ \E i \in 1..Len(flows) :
          LET p == flows[i].packets[Len(flows[i].packets)]
          IN  /\ p.src_ip = <<"a">>
              /\ p.dst_ip = <<"b">>
    /\ PacketCount(flows) = idx - 1

\* the line is not blank, has at least 8 fields, and its frame size,
\* timestamp, addresses and ports are all present and parsable
RequiredFieldsParsable(line) ==
    /\ Strip(line, Whitespace) # <<>>
    /\ Len(Fields(line)) >= 8
    /\ LET fields == Fields(line)
       IN  /\ ~AddressMissing(fields, 1, 3)
           /\ ~AddressMissing(fields, 2, 4)
           /\ fields[5] # <<>>
           /\ fields[6] # <<>>
           /\ fields[7] # <<>> /\ IsIntLiteral(fields[7])
           /\ fields[8] # <<>> /\ IsFloatLiteral(fields[8])

\* C17: the listed skip conditions are the only ones.  Every non-blank line
\* of at least 8 fields whose frame size, timestamp, addresses and ports
\* are present and parsable adds exactly one packet, whatever its optional
\* fields hold.
C17_OnlyListedSkips ==
    [][(ParsesLine /\ RequiredFieldsParsable(lines[idx])) =>
          PacketCount(flows') = PacketCount(flows) + 1]_vars

\* the parsed events of the lines of one flow key, in the order of the lines
EventsOfFlow(ls, flow_id) ==
    LET own == LinesOfFlow(ls, flow_id)
    IN  [j \in 1..Len(own) |-> Parsed(own[j]).packet_info]

\* a packet list without the directions, which come after the assembly
Undirected(packets) ==
    [j \in 1..Len(packets) |-> [packets[j] EXCEPT !.direction = NoDirection]]

\* the lines the loop has gone through
LinesSeen == SubSeq(lines, 1, idx - 1)

InCall == pc \in {"parse", "directions", "windows", "done", "failed"}

\* every parsed event is in exactly one flow, in file order
Conserved ==
    InCall =>
        /\ PacketCount(flows) =
               Len(SelectSeq(LinesSeen, LAMBDA l : Parsed(l).outcome = "packet"))
        /\ \A i, j \in 1..Len(flows) :
               flows[i].flow_id = flows[j].flow_id => i = j
        /\ \A i \in 1..Len(flows) :
               /\ flows[i].packets # <<>>
               /\ Undirected(flows[i].packets) =
                      EventsOfFlow(LinesSeen, flows[i].flow_id)

\* within a call, a step keeps every flow and every packet where it is
KeepsEvents ==
    (InCall /\ pc' # "start") =>
        /\ Len(flows') >= Len(flows)
        /\ \A i \in 1..Len(flows) :
               /\ flows'[i].flow_id = flows[i].flow_id
               /\ Len(flows'[i].packets) >= Len(flows[i].packets)
               /\ SubSeq(Undirected(flows'[i].packets), 1, Len(flows[i].packets))
                      = Undirected(flows[i].packets)

\* C18: packet conservation and order.  At every point of the assembly and
\* after it, the flows together hold as many packets as lines were parsed
\* into events, no two flows have the same key, each flow's packet list is
\* the events of its key in file order, and no step moves, drops or
\* duplicates an appended event.
C18_PacketConservation == []Conserved /\ [][KeepsEvents]_vars

\* a finished file with two flows whose lines interleave
C18_Witness ==
    /\ pc = "done"
    /\ Len(flows) = 2
    /\ Len(lines) = 3
    /\ Len(flows[1].packets) = 2
    /\ FlowId(Parsed(lines[2]).packet_info) = flows[2].flow_id

\* extract_quic_flows_tshark has returned
Extracted ==
    /\ pc \in {"directions", "windows", "done", "failed"}
    /\ fi > Len(flows)

CountDirection(packets, direction) ==
    Cardinality({j \in 1..Len(packets) : packets[j].direction = direction})

AllDirected ==
    Extracted =>
        \A i \in 1..Len(flows) : \A j \in 1..Len(flows[i].packets) :
            flows[i].packets[j].direction \in {"outgoing", "incoming"}

\* the directions counted in a record are those of the packets of the flow
SameDirections ==
    /\ \A row \in FullRows :
          /\ row.outgoing_packets = CountDirection(FlowOfRow(row).packets, "outgoing")
          /\ row.incoming_packets = CountDirection(FlowOfRow(row).packets, "incoming")
    /\ \A row \in WindowRows :
          LET first == SubSeq(FlowOfRow(row).packets, 1, row.window_size)
          IN  /\ row.outgoing_packets = CountDirection(first, "outgoing")
              /\ row.incoming_packets = CountDirection(first, "incoming")

\* computing records leaves the flows as extraction returned them
FlowsReadOnly == (Extracted /\ pc' # "start") => flows' = flows

\* C19: direction is assigned once and flows are read-only afterwards.
\* When the extraction has returned every packet of every flow is outgoing
\* or incoming; no later step of the call changes a flow's packet list,
\* roles or packet fields; and the directions counted in every full and
\* window record are those the packets have in the flow.
C19_DirectionAssignedOnce ==
    /\ []AllDirected
    /\ []SameDirections
    /\ [][FlowsReadOnly]_vars

\* a finished file with a flow longer than the first window: the window
\* record counts the directions of the first packets only
C19_Witness ==
    /\ pc = "done"
    /\ \E row \in WindowRows :
          /\ Len(FlowOfRow(row).packets) > row.window_size
          /\ row.incoming_packets > 0
          /\ row.outgoing_packets > 0
          /\ \E full \in FullRows :
                /\ full.flow_id = row.flow_id
                /\ full.incoming_packets > row.incoming_packets

\* every line parsed, every packet in its flow, the roles and every
\* direction of every flow assigned
AssemblyFinished ==
    /\ idx > Len(lines)
    /\ fi > Len(flows)
    /\ PacketCount(flows) =
           Len(SelectSeq(lines, LAMBDA l : Parsed(l).outcome = "packet"))
    /\ \A i \in 1..Len(flows) :
          /\ flows[i].client_ip # None
          /\ flows[i].client_port # None
          /\ flows[i].server_ip # None
          /\ flows[i].server_port # None
          /\ \A j \in 1..Len(flows[i].packets) :
                flows[i].packets[j].direction # NoDirection

\* the step computes a record of the file
ComputesRecord ==
    /\ pc' # "start"
    /\ \/ full_results' # full_results
       \/ window_results' # window_results

\* C20: assembly is a synchronization point.  A step that computes a full
\* or window record of a file is taken only when every line of the file
\* has been parsed, every packet is in its flow, and the roles and all
\* directions of every flow are assigned; and whenever a record exists the
\* assembly is finished.
C20_AssemblyBeforeStatistics ==
    /\ [][ComputesRecord => AssemblyFinished]_vars
    /\ []((full_results # <<>> \/ window_results # NoRows) => AssemblyFinished)

\* the first window of a file with two flows has been computed
C20_Witness ==
    /\ pc = "windows"
    /\ wi = 2
    /\ Len(flows) = 2
    /\ Len(full_results) = 2
    /\ Len(window_results[1]) = 1
    /\ AssemblyFinished

(***************************************************************************)
(* Properties of the timing, size and entropy features.                    *)
(***************************************************************************)
\* the packets of a subset of the slice: all of them, or one direction
Subset(packets, direction) ==
    IF direction = "all" THEN packets
    ELSE SelectSeq(packets, LAMBDA p : p.direction = direction)

Subsets == {"all", "outgoing", "incoming"}

IatPrefix == [all |-> "iat", outgoing |-> "iat_out", incoming |-> "iat_in"]

\* the valid timestamps of a subset, as a set of positions
ValidTimes(packets) == {i \in 1..Len(packets) : packets[i].timestamp > 0}

\* the gaps between two valid timestamps of the subset that are neighbours
\* in ascending order: no other valid timestamp lies strictly between them
NeighbourGaps(packets) ==
    {packets[j].timestamp - packets[i].timestamp : <<i, j>> \in
        {q \in ValidTimes(packets) \X ValidTimes(packets) :
            /\ q[1] # q[2]
            /\ packets[q[1]].timestamp <= packets[q[2]].timestamp
            /\ \A k \in ValidTimes(packets) \ {q[1], q[2]} :
                  \/ packets[k].timestamp <= packets[q[1]].timestamp
                  \/ packets[k].timestamp >= packets[q[2]].timestamp}}

\* the five IAT fields of one subset are as claimed
IatAsClaimed(packets, prefix) ==
    LET valid == ValidTimes(packets)
        times == {packets[i].timestamp : i \in valid}
        first == CHOOSE t \in times : \A u \in times : t <= u
        last == CHOOSE t \in times : \A u \in times : t >= u
    IN  IF Cardinality(valid) < 2
        THEN /\ stats[prefix \o "_mean"] = Zero
             /\ stats[prefix \o "_min"] = 0
             /\ stats[prefix \o "_max"] = 0
             /\ stats[prefix \o "_std"] = Sqrt(Zero)
             /\ stats[prefix \o "_var"] = Zero
        ELSE /\ stats[prefix \o "_min"] >= 0
             /\ stats[prefix \o "_min"] \in NeighbourGaps(packets)
             /\ stats[prefix \o "_max"] \in NeighbourGaps(packets)
             /\ \A g \in NeighbourGaps(packets) :
                   stats[prefix \o "_min"] <= g /\ g <= stats[prefix \o "_max"]
             /\ stats[prefix \o "_mean"] = Rat(last - first, Cardinality(valid) - 1)
             /\ RatLeq(Rat(stats[prefix \o "_min"], 1), stats[prefix \o "_mean"])
             /\ RatLeq(stats[prefix \o "_mean"], Rat(stats[prefix \o "_max"], 1))

ArrivalOrders(n) == {f \in [1..n -> 1..n] : \A i, j \in 1..n : f[i] = f[j] => i = j}

Reordered(packets, f) == [i \in 1..Len(packets) |-> packets[f[i]]]

\* C22: duration.  The duration of a slice is the largest minus the
\* smallest timestamp among its packets with timestamp > 0, is the same for
\* every arrival order of the same packets, is never negative, and is 0
\* when fewer than 2 packets have a timestamp > 0.
C22_Duration ==
    (pc = "engine_done" /\ slice # <<>>) =>
        LET valid == ValidTimes(slice)
            times == {slice[i].timestamp : i \in valid}
        IN  /\ stats["duration"] >= 0
            /\ Cardinality(valid) < 2 => stats["duration"] = 0
            /\ Cardinality(valid) >= 2 =>
                  /\ \E t, u \in times :
                        /\ \A v \in times : t <= v /\ v <= u
                        /\ stats["duration"] = u - t
            /\ \A f \in ArrivalOrders(Len(slice)) :
                  Duration(Reordered(slice, f)) = stats["duration"]

\* a slice whose timestamps arrive in descending order, one of them invalid
C22_Witness ==
    /\ pc = "engine_done"
    /\ Len(slice) = 3
    /\ slice[1].timestamp > slice[2].timestamp
    /\ slice[2].timestamp > 0
    /\ slice[3].timestamp = 0
    /\ stats["duration"] = slice[1].timestamp - slice[2].timestamp

SizePrefix ==
    [all |-> "packet_size", outgoing |-> "packet_size_out",
     incoming |-> "packet_size_in"]

\* the six size fields of one subset are as claimed
SizesAsClaimed(packets, prefix) ==
    LET sized == {i \in 1..Len(packets) : packets[i].size > 0}
        sizes == {packets[i].size : i \in sized}
        total == SumSeq([i \in 1..Len(packets) |->
                            IF i \in sized THEN packets[i].size ELSE 0])
    IN  IF sized = {}
        THEN /\ stats[prefix \o "_mean"] = Zero
             /\ stats[prefix \o "_min"] = 0
             /\ stats[prefix \o "_max"] = 0
             /\ stats[prefix \o "_std"] = Sqrt(Zero)
             /\ stats[prefix \o "_var"] = Zero
             /\ stats[prefix \o "_cv"] = Sqrt(Zero)
        ELSE /\ stats[prefix \o "_mean"] = Rat(total, Cardinality(sized))
             /\ stats[prefix \o "_min"] \in sizes
             /\ stats[prefix \o "_max"] \in sizes
             /\ \A s \in sizes :
                   stats[prefix \o "_min"] <= s /\ s <= stats[prefix \o "_max"]
             /\ Cardinality(sizes) = 1 =>
                   /\ stats[prefix \o "_std"] = Sqrt(Zero)
                   /\ stats[prefix \o "_var"] = Zero
                   /\ stats[prefix \o "_cv"] = Sqrt(Zero)
                   /\ stats[prefix \o "_mean"] = Rat(stats[prefix \o "_min"], 1)
                   /\ stats[prefix \o "_min"] = stats[prefix \o "_max"]
             /\ Cardinality(sizes) > 1 => stats[prefix \o "_var"] # Zero

\* C23: size distribution.  For each subset (all, outgoing, incoming) the
\* size fields are taken over the packets of size > 0 only, while
\* total_packets counts every packet; the six fields are 0 when the subset
\* has no packet of positive size; and when all positive sizes are equal,
\* std, var and cv are 0 and mean = min = max.
C23_SizeDistribution ==
    (pc = "engine_done" /\ slice # <<>>) =>
        /\ stats["total_packets"] = Len(slice)
        /\ \A d \in Subsets : SizesAsClaimed(Subset(slice, d), SizePrefix[d])

\* three outgoing packets, two of the same positive size and one of size 0:
\* the zero-size packet is counted but not measured
C23_Witness ==
    /\ pc = "engine_done"
    /\ Len(slice) = 3
    /\ stats["outgoing_packets"] = 3
    /\ \E i \in 1..3 : slice[i].size = 0
    /\ stats["packet_size_min"] = 100
    /\ stats["packet_size_max"] = 100
    /\ stats["packet_size_mean"] = <<100, 1>>
    /\ stats["packet_size_cv"] = Sqrt(Zero)
    /\ stats["packet_size_in_max"] = 0

RECURSIVE Pow(_, _)
Pow(b, e) == IF e = 0 THEN 1 ELSE b * Pow(b, e - 1)

\* an entropy is kept as the frequencies it is the sum over: h[n] is the
\* number of values that occur n times.  With N elements and counts c,
\* 2 ^ (N * entropy) = N^N / (product of c^c), which compares in integers.
Elements(h) == SumSeq([n \in 1..Len(h) |-> n * h[n]])

DistinctValues(h) == SumSeq([n \in 1..Len(h) |-> h[n]])

RECURSIVE ProductOfCounts(_, _)
ProductOfCounts(h, n) ==
    IF n = 0 THEN 1 ELSE Pow(Pow(n, n), h[n]) * ProductOfCounts(h, n - 1)

\* 0 <= entropy
EntropyNonNegative(h) ==
    ProductOfCounts(h, Len(h)) <= Pow(Elements(h), Elements(h))

\* entropy <= log2(k)
EntropyAtMostLog2(h, k) ==
    Pow(Elements(h), Elements(h)) <= Pow(k, Elements(h)) * ProductOfCounts(h, Len(h))

\* entropy = 0
EntropyIsZero(h) ==
    ProductOfCounts(h, Len(h)) = Pow(Elements(h), Elements(h))

EntropyAsClaimed(h, values) ==
    /\ Elements(h) = Len(values)
    /\ DistinctValues(h) = Cardinality(Range(values))
    /\ EntropyNonNegative(h)
    /\ EntropyAtMostLog2(h, Cardinality(Range(values)))
    /\ Cardinality(Range(values)) = 1 <=> EntropyIsZero(h)

RECURSIVE MainJoinFields(_)
MainJoinFields(fields) ==
    IF fields = <<>> THEN <<>>
    ELSE IF Len(fields) = 1 THEN <<"\"">> \o fields[1] \o <<"\"">>
    ELSE <<"\"">> \o fields[1] \o <<"\"", ",">> \o MainJoinFields(Tail(fields))

\* ip.src, ip.dst, ipv6.src, ipv6.dst, udp.srcport, udp.dstport, frame.len,
\* frame.time_epoch
MainLineAB == MainJoinFields(<< <<"a">>, <<"b">>, E, E, <<"1">>, <<"2">>,
                                <<"1", "0", "0">>, <<"1">> >>)

MainLineBA == MainJoinFields(<< <<"b">>, <<"a">>, E, E, <<"2">>, <<"1">>,
                                <<"2", "0", "0">>, <<"2">> >>)

MainLineCB == MainJoinFields(<< E, E, <<"c">>, <<"b">>, <<"1">>, <<"2">>,
                                <<"1", "0", "5">>, <<"3">> >>)

MainLineSixFields ==
    MainJoinFields(<< <<"a">>, <<"b">>, E, E, <<"1">>, <<"2">> >>)

MainLines == {MainLineAB, MainLineBA, MainLineCB, MainLineSixFields}

\* fields = [f.strip('"').strip() for f in line.split(',')]
MainFields(line) ==
    LET parts == Split(line, ",")
    IN  [i \in 1..Len(parts) |-> Strip(Strip(parts[i], {"\""}), Whitespace)]

\* the except (ValueError, TypeError) branch of main.py's packet_info
MainRaisesValueError(fields) ==
    \/ fields[7] # <<>> /\ ~IsIntLiteral(fields[7])
    \/ fields[8] # <<>> /\ ~IsFloatLiteral(fields[8])

MainPacketInfo(fields) ==
    [src_ip |-> IF fields[1] # <<>> THEN fields[1] ELSE fields[3],
     dst_ip |-> IF fields[2] # <<>> THEN fields[2] ELSE fields[4],
     src_port |-> fields[5],
     dst_port |-> fields[6],
     size |-> IF fields[7] # <<>> THEN IntOf(fields[7]) ELSE 0,
     timestamp |-> IF fields[8] # <<>> THEN FloatOf(fields[8]) ELSE 0]

MainLineOutcome(line) ==
    IF Strip(line, Whitespace) = <<>> THEN "blank"
    ELSE LET fields == MainFields(line)
         IN  IF Len(fields) < 8 THEN "short"
             ELSE IF \/ (fields[1] = <<>> /\ fields[3] = <<>>)
                     \/ (fields[2] = <<>> /\ fields[4] = <<>>)
                     \/ fields[5] = <<>> \/ fields[6] = <<>> THEN "missing"
             ELSE IF MainRaisesValueError(fields) THEN "valueerror"
             ELSE "packet"

MainParseText(line) ==
    [outcome |-> MainLineOutcome(line),
     packet_info |-> IF MainLineOutcome(line) = "packet"
                     THEN MainPacketInfo(MainFields(line)) ELSE <<>>]

MainParseTable == [line \in MainLines \cup {<<>>} |-> MainParseText(line)]

MainParsed(line) ==
    IF line \in DOMAIN MainParseTable THEN MainParseTable[line]
    ELSE MainParseText(line)

\* flow_id = min(flow_id_1, flow_id_2) of main.py
MainFlowId(p) ==
    StrMin(p.src_ip \o Colon \o p.src_port \o Arrow \o p.dst_ip \o Colon \o p.dst_port,
           p.dst_ip \o Colon \o p.dst_port \o Arrow \o p.src_ip \o Colon \o p.src_port)

\* flows[flow_id].append(packet_info) on a defaultdict(list)
MainAddLine(fs, line) ==
    IF MainParsed(line).outcome # "packet" THEN fs
    ELSE LET p == MainParsed(line).packet_info
             flow_id == MainFlowId(p)
             fs1 == IF FlowIndex(fs, flow_id) = 0
                    THEN Append(fs, [flow_id |-> flow_id, packets |-> <<>>])
                    ELSE fs
             i == FlowIndex(fs1, flow_id)
         IN  [fs1 EXCEPT ![i].packets = Append(@, p)]

RECURSIVE MainParseLoop(_, _)
MainParseLoop(fs, ls) ==
    IF ls = <<>> THEN fs ELSE MainParseLoop(MainAddLine(fs, Head(ls)), Tail(ls))

\* the flows main.py's extract_quic_flows_tshark returns for the lines ls
main_extract_quic_flows_tshark(ls) == MainParseLoop(<<>>, ls)

\* calculate_packet_statistics(packets, num_packets); num_packets = 0
\* stands for None
calculate_packet_statistics(all_packets, num_packets) ==
    LET packets == IF num_packets # 0
                   THEN SubSeq(all_packets, 1,
                               IF Len(all_packets) < num_packets
                               THEN Len(all_packets) ELSE num_packets)
                   ELSE all_packets
        packet_sizes == Positive(Sizes(packets))
        timestamps == Positive(Timestamps(packets))
    IN  IF packets = <<>> THEN EmptyDict
        ELSE [packet_count |-> Len(packets),
              total_bytes |-> SumSeq(packet_sizes),
              avg_packet_size |-> IF packet_sizes # <<>> THEN Mean(packet_sizes)
                                  ELSE Zero,
              min_packet_size |-> IF packet_sizes # <<>> THEN MinSeq(packet_sizes)
                                  ELSE 0,
              max_packet_size |-> IF packet_sizes # <<>> THEN MaxSeq(packet_sizes)
                                  ELSE 0,
              duration |-> IF Len(timestamps) >= 2
                           THEN timestamps[Len(timestamps)] - timestamps[1]
                           ELSE 0]

\* flow_result of main.py's full variant
MainFullRecord(flow) ==
    calculate_packet_statistics(flow.packets, 0) @@
    [file |-> FileName,
     flow_id |-> flow.flow_id,
     total_packets |-> Len(flow.packets)]

MainFullResults(fs) == [i \in 1..Len(fs) |-> MainFullRecord(fs[i])]

\* flow_result of main.py's window variants
MainWindowRecord(flow, window) ==
    calculate_packet_statistics(flow.packets, window) @@
    [file |-> FileName,
     flow_id |-> flow.flow_id,
     window_size |-> window,
     total_packets_in_flow |-> Len(flow.packets)]

MainWindowResults(fs, window) ==
    LET kept == SelectSeq(fs, LAMBDA f : ~(Len(f.packets) < window))
    IN  [i \in 1..Len(kept) |-> MainWindowRecord(kept[i], window)]

\* {'full': len(full_results), **window_counts}, window_counts keyed by int
MainReturnedCounts(full, counts) ==
    [k \in {"full"} \cup {IntKey(PACKET_WINDOWS[i]) : i \in 1..Len(PACKET_WINDOWS)} |->
        IF k = "full" THEN Len(full)
        ELSE counts[CHOOSE i \in 1..Len(PACKET_WINDOWS) : IntKey(PACKET_WINDOWS[i]) = k]]

\* what tshark prints for the captures of main.py
MainCaptures == SeqsUpTo(MainLines, 0, MaxFlowLines)

InitMainPy ==
    /\ files \in {<<FileOf(Paths[1], c)>> : c \in MainCaptures}
    /\ fnum = 1
    /\ announced = <<>>
    /\ total_stats = [k \in DATASETS |-> 0]
    /\ written = [q \in {} |-> <<>>]
    /\ reported = {}
    /\ pc = "main_start"
    /\ FreshCall
    /\ slice = <<>>
    /\ stats = EmptyDict

MainRunTshark ==
    /\ pc = "main_start"
    /\ lines' = StdoutLines(Stdout(files[fnum].capture))
    /\ pc' = "main_parse"
    /\ UNCHANGED <<idx, pbar, flows, fi, printed, full_results, wi,
                   window_results, window_counts, returned>>
    /\ UNCHANGED <<batchVars, engineVars>>

\* tshark fails: "except Exception" prints the error and returns the zeros
MainTsharkFails ==
    /\ pc = "main_start"
    /\ reported' = reported \cup {fnum}
    /\ returned' = ZeroCounts
    /\ pc' = "main_failed"
    /\ UNCHANGED <<files, fnum, announced, total_stats, written>>
    /\ UNCHANGED <<lines, idx, pbar, flows, fi, printed, full_results, wi,
                   window_results, window_counts>>
    /\ UNCHANGED engineVars

MainParseLine ==
    /\ pc = "main_parse"
    /\ idx <= Len(lines)
    /\ flows' = MainAddLine(flows, lines[idx])
    /\ pbar' = pbar + (IF MainParsed(lines[idx]).outcome = "blank" THEN 0 ELSE 1)
    /\ idx' = idx + 1
    /\ UNCHANGED <<lines, pc, fi, printed, full_results, wi, window_results,
                   window_counts, returned>>
    /\ UNCHANGED <<batchVars, engineVars>>

MainPrintFound ==
    /\ pc = "main_parse"
    /\ idx > Len(lines)
    /\ printed' = [flows |-> Len(flows), packets |-> Len(lines)]
    /\ pc' = "main_full"
    /\ UNCHANGED <<lines, idx, pbar, flows, fi, full_results, wi,
                   window_results, window_counts, returned>>
    /\ UNCHANGED <<batchVars, engineVars>>

MainReturnNoFlows ==
    /\ pc = "main_full"
    /\ flows = <<>>
    /\ returned' = ZeroCounts
    /\ pc' = "main_done"
    /\ UNCHANGED <<lines, idx, pbar, flows, fi, printed, full_results, wi,
                   window_results, window_counts>>
    /\ UNCHANGED <<batchVars, engineVars>>

MainComputeFull ==
    /\ pc = "main_full"
    /\ flows # <<>>
    /\ full_results' = MainFullResults(flows)
    /\ written' = WriteCsv(written, OutputPath("full", files[fnum]),
                           MainFullResults(flows))
    /\ pc' = "main_windows"
    /\ UNCHANGED <<lines, idx, pbar, flows, fi, printed, wi, window_results,
                   window_counts, returned>>
    /\ UNCHANGED <<files, fnum, announced, total_stats, reported>>
    /\ UNCHANGED engineVars

MainComputeWindow ==
    /\ pc = "main_windows"
    /\ wi <= Len(PACKET_WINDOWS)
    /\ window_results' =
           [window_results EXCEPT ![wi] = MainWindowResults(flows, PACKET_WINDOWS[wi])]
    /\ window_counts' =
           [window_counts EXCEPT ![wi] = Len(MainWindowResults(flows, PACKET_WINDOWS[wi]))]
    /\ written' = IF MainWindowResults(flows, PACKET_WINDOWS[wi]) # <<>>
                  THEN WriteCsv(written,
                                OutputPath(IntKey(PACKET_WINDOWS[wi]), files[fnum]),
                                MainWindowResults(flows, PACKET_WINDOWS[wi]))
                  ELSE written
    /\ wi' = wi + 1
    /\ UNCHANGED <<lines, pc, idx, pbar, flows, fi, printed, full_results, returned>>
    /\ UNCHANGED <<files, fnum, announced, total_stats, reported>>
    /\ UNCHANGED engineVars

MainReturn ==
    /\ pc = "main_windows"
    /\ wi > Len(PACKET_WINDOWS)
    /\ returned' = MainReturnedCounts(full_results, window_counts)
    /\ pc' = "main_done"
    /\ UNCHANGED <<lines, idx, pbar, flows, fi, printed, full_results, wi,
                   window_results, window_counts>>
    /\ UNCHANGED <<batchVars, engineVars>>

NextMainPy ==
    \/ MainRunTshark
    \/ MainTsharkFails
    \/ MainParseLine
    \/ MainPrintFound
    \/ MainReturnNoFlows
    \/ MainComputeFull
    \/ MainComputeWindow
    \/ MainReturn

MainPySpec == InitMainPy /\ [][NextMainPy]_vars

\* the lines of a capture of main.py that belong to one flow
MainLinesOfFlow(ls, flow_id) ==
    SelectSeq(ls, LAMBDA l : /\ MainParsed(l).outcome = "packet"
                             /\ MainFlowId(MainParsed(l).packet_info) = flow_id)

\* C25: the window records of main.py do not depend on the flow's total
\* length or on packets beyond the window.  Every record of the N-window
\* variant equals the record of the capture made of the first N lines of
\* its flow only, so two flows with the same first N packets get the same
\* record.
C25_MainPyWindowIsolation ==
    pc = "main_done" =>
        \A k \in 1..Len(PACKET_WINDOWS) : \A r \in 1..Len(window_results[k]) :
            LET row == window_results[k][r]
                first == SubSeq(MainLinesOfFlow(lines, row.flow_id), 1,
                                PACKET_WINDOWS[k])
            IN  row = MainWindowResults(main_extract_quic_flows_tshark(first),
                                        PACKET_WINDOWS[k])[1]

(***************************************************************************)
(* Properties of the outcomes of a file.                                   *)
(***************************************************************************)
\* the file being processed yields no flow
NoFlowsInFile == fnum <= Len(files) /\ FlowsOfFile(fnum) = <<>>

\* the call on a file without flows has returned
ReturnedNoFlows == pc = "done" /\ flows = <<>>

\* C26: empty flow set.  A capture file whose parse yields no flow (no
\* line, or every line skipped) produces no record, writes no output file
\* in any variant, returns 0 for every variant and leaves the batch totals
\* as they were, and the batch goes on to its end.
C26_EmptyFlowSet ==
    /\ [](ReturnedNoFlows =>
            /\ NoFlowsInFile
            /\ full_results = <<>>
            /\ window_results = NoRows
            /\ \A k \in DOMAIN returned : returned[k] = 0
            /\ fnum \notin reported)
    /\ [][NoFlowsInFile => written' = written]_vars
    /\ [][ReturnedNoFlows =>
            /\ total_stats' = total_stats
            /\ fnum' = fnum + 1
            /\ pc' = "start"]_vars
    /\ (ReturnedNoFlows ~> pc = "finished")

\* a batch of two files has ended: the first had lines but no flow, the
\* second has its records written and counted
C26_Witness ==
    /\ pc = "finished"
    /\ Len(files) = 2
    /\ FlowsOfFile(1) = <<>>
    /\ reported = {}
    /\ announced = <<1, 2>>
    /\ total_stats["full"] = 1
    /\ DOMAIN written = {OutputPath("full", files[2])}

(***************************************************************************)
(* C27: flow keys and conversations.                                       *)
(***************************************************************************)
Endpoints(p) == {<<p.src_ip, p.src_port>>, <<p.dst_ip, p.dst_port>>}

PacketsSeen ==
    {Parsed(LinesSeen[j]).packet_info :
        j \in {k \in 1..Len(LinesSeen) : Parsed(LinesSeen[k]).outcome = "packet"}}

SourceIsClientOrServer(flow_data) ==
    \A j \in 1..Len(flow_data.packets) :
        <<flow_data.packets[j].src_ip, flow_data.packets[j].src_port>> \in
            {<<flow_data.client_ip, flow_data.client_port>>,
             <<flow_data.server_ip, flow_data.server_port>>}

\* C27: two packets of a file are in the same flow exactly when they have
\* the same unordered pair of endpoints, whatever strings the addresses and
\* ports are, and once the directions are set the source of every packet is
\* the client or the server of its flow.
C27_FlowKeysExact ==
    InCall =>
        /\ \A p \in PacketsSeen : \A q \in PacketsSeen :
               (FlowId(p) = FlowId(q)) <=> (Endpoints(p) = Endpoints(q))
        /\ \A i \in 1..Len(flows) : \A j \in 1..Len(flows[i].packets) :
               Endpoints(flows[i].packets[j]) = Endpoints(flows[i].packets[1])
        /\ Extracted => \A i \in 1..Len(flows) : SourceIsClientOrServer(flows[i])

(***************************************************************************)
(* C28: the two directions partition a record.                             *)
(***************************************************************************)
PacketsOfRow(row) ==
    IF "window_size" \in DOMAIN row
    THEN SubSeq(FlowOfRow(row).packets, 1, row.window_size)
    ELSE FlowOfRow(row).packets

DirectionsPartition(row) ==
    /\ row.total_packets = Len(PacketsOfRow(row))
    /\ row.outgoing_packets + row.incoming_packets = row.total_packets
    /\ row.outgoing_bytes + row.incoming_bytes = row.total_bytes

\* C28: in every record computed from an assembled flow, full or of a
\* window, the outgoing and the incoming packets add up to all the packets
\* of the record and the outgoing and the incoming bytes to all its bytes.
C28_DirectionPartition ==
    \A row \in FullRows \cup WindowRows : DirectionsPartition(row)

\* a finished file with a window record and a full record that both hold
\* packets of the two directions
C28_Witness ==
    /\ pc = "done"
    /\ \E row \in WindowRows :
          /\ row.outgoing_packets > 0 /\ row.incoming_packets > 0
          /\ row.incoming_bytes > 0
    /\ \E row \in FullRows :
          /\ row.outgoing_packets > 0 /\ row.incoming_packets > 0
          /\ row.total_packets > PACKET_WINDOWS[1]

(***************************************************************************)
(* C29: header class and protocol state.                                   *)
(***************************************************************************)
RatSum(a, b) == <<a[1] * b[2] + b[1] * a[2], a[2] * b[2]>>

LongStateCount(s) ==
    s["initial_packets"] + s["handshake_packets"]
        + s["zerortt_packets"] + s["retry_packets"]

ClassRatioSum(s) ==
    RatSum(s["initial_ratio"],
        RatSum(s["handshake_ratio"],
            RatSum(s["zerortt_ratio"],
                RatSum(s["onertt_ratio"], s["retry_ratio"]))))

ReturnedFor(variant) ==
    IF variant \in DOMAIN returned THEN returned[variant]
    ELSE IF "int " \o variant \in DOMAIN returned THEN returned["int " \o variant]
    ELSE 0

\* the records in the output file of a variant for the file being analyzed
WrittenFor(variant) ==
    IF OutputPath(variant, files[fnum]) \in DOMAIN written
    THEN Len(written[OutputPath(variant, files[fnum])])
    ELSE 0

CallReturned == pc \in {"done", "failed"}

\* C30: whenever analyze_pcap_file has returned, normally or through its
\* exception handler, the count it returns for each variant is the number
\* of records in that variant's output file for the capture, and that is
\* the number main adds to the total of the variant.
C30_CountsMatchOutput ==
    /\ [](CallReturned =>
             \A variant \in DATASETS : ReturnedFor(variant) = WrittenFor(variant))
    /\ [][CallReturned =>
             \A variant \in DATASETS :
                 total_stats'[variant] - total_stats[variant] = WrittenFor(variant)]_vars

====
